---- MODULE Spec2Model ----
(***************************************************************************)
(* Tool-call approval and execution pipeline of the MCP client.            *)
(*                                                                         *)
(* Spec      : the API server (server.ts) driving                          *)
(*             MCPClient.processQueryStructured, with the approval gate    *)
(*             (/api/set-approval-callback, /api/pending-approvals,        *)
(*             /api/approve-tool) and its 30 s timers.                     *)
(* LiveSpec  : Spec with the fairness of the node event loop (time passes, *)
(*             armed timers fire).                                         *)
(* LwtSpec   : one call of LLMWithTools.chat, which hands the tool calls   *)
(*             of a response to validateAndCallTool.                       *)
(* ChatSpec  : two overlapping /api/chat requests and                      *)
(*             /api/conversation/reset on the shared conversation history. *)
(* PlrSpec   : one call of processLLMResponse (approval, execution and the *)
(*             follow-up to the model).                                    *)
(* RegSpec   : MCPClient's connection registry (connectToServer with its   *)
(*             retries, disconnectFromServer, the tool lists).             *)
(* NormSpec  : the normalization of server ids.                            *)
(* MgrSpec   : MCPConnectionManager's connections.                         *)
(* VctSpec   : one call of validateAndCallTool, with the zod schema        *)
(*             createZodSchema builds from the tool's inputSchema.         *)
(* ParserSpec: one model response parsed by the UI's McpService or by      *)
(*             its Sidebar.                                                *)
(* PctSpec   : one call of agentFlow's performComplexTask.                 *)
(* ApprSpec  : two overlapping /api/chat requests under the approval gate, *)
(*             within one value of Date.now().                             *)
(* SrvSpec   : POST /api/servers/connect with a server path, and the       *)
(*             server registry file it appends to.                         *)
(*                                                                         *)
(* node runs one handler at a time: every action below is the code that    *)
(* runs between two suspension points (await), as one atomic step.         *)
(***************************************************************************)
EXTENDS Integers, Sequences, FiniteSets, TLC

(* ------------------------------ bounds -------------------------------- *)
\* tool_use blocks the model emits, over all chat requests together
MaxBlocks == 2
\* Date.now() is observed in steps of ClockStepMs, and no chat request
\* arrives after MaxClockMs
ClockStepMs == 30000
MaxClockMs == 0

\* retries of one series that are followed; a further retry is not
\* scheduled
MaxRetriesSeen == 4
\* pieces of a server id that is normalized
MaxLen == 2
\* segments of a model response that is parsed
MaxSegments == 2
\* largest options.maxIterations given to performComplexTask
MaxIterationsOption == 3
\* tool calls in one response to performComplexTask
MaxToolCalls == 2
\* Client objects an MCPConnectionManager creates
MaxClients == 3

(* --------------------------- program constants ------------------------ *)
ApprovalTimeoutMs == 30000
maxReconnectAttempts == 3
reconnectDelay == 1000
\* `options.maxIterations || 10`
DefaultMaxIterations == 10

\* the POST /api/chat requests, numbered in their order of arrival; two
\* requests are what it takes to have them overlap
Sessions == {1, 2}

\* tool names a model response can carry: "calculate" is provided by the
\* connected tool server, "ghost" by no server
ProvidedTools == {"calculate"}
ToolNames == ProvidedTools \cup {"ghost"}

\* arguments are modelled by the set of property names they carry
ArgValues == {{"operation", "a", "b"}, {"a", "b"}}

\* the JSON values of the `approved` field of POST /api/approve-tool
ApprovedValues == {"true", "false", "\"true\""}

\* a missing id
EmptyId == <<>>

NoReply == [handler |-> "none", status |-> 0, priorResolved |-> FALSE]

VARIABLES
  approvalCallback,     \* MCPClient.approvalCallback: "null" | "ui" | "auto"
  pendingApprovals,     \* server.ts Map, as its entries {<<id, index into approvals>>}
  approvals,            \* every promise the ui callback created, in order
  now,                  \* Date.now()
  conversationHistory,  \* MCPClient.conversationHistory
  pc,                   \* per chat request: where processQueryStructured is
  toolCalls,            \* per chat request: result.toolCalls
  messages,             \* per chat request: the local messages array
  callToolLog,          \* invocations of this.mcp.callTool: {<<session, call>>}
  approveReply,         \* the response of POST /api/approve-tool, when the step
                        \* just taken handled one
  lwtPc,                \* where LLMWithTools.chat is
  lwtCalls,             \* LLMWithTools.chat: the tool calls of the response, each
                        \* with the place of its async function
  plrPc,                \* where processLLMResponse (conversation manager) is
  plrCalls,             \* processLLMResponse: the extracted tool calls, each with
                        \* its status
  plrMessages,          \* processLLMResponse: the messages array
  plrFollowUps,         \* processLLMResponse: the conversations it sent to
                        \* llmProvider.sendMessage, each as the set of calls whose
                        \* outcome it holds
  plrResponse,          \* processLLMResponse: the llmResponse it returned
  connectedServers,     \* MCPClient.connectedServers: the Map's entries, in
                        \* insertion order
  serverTools,          \* MCPClient.serverTools, as its entries {<<id, tools>>}
  tools,                \* MCPClient.tools
  reconnectAttempts,    \* MCPClient.reconnectAttempts, as its entries {<<id, n>>}
  connecting,           \* calls of connectToServer that are at an await
  retryTimers,          \* armed setTimeout callbacks of connectToServer
  retriesScheduled,     \* per server path: retries scheduled since the last
                        \* call of connectToServer that was not itself a retry
  regReply,             \* what disconnectFromServer returned, when the step just
                        \* taken was one
  abandoned,            \* the server paths whose retry series a caller has
                        \* abandoned: disconnectFromServer was called for the
                        \* server while a retry was scheduled and no attempt
                        \* was in flight, and connectToServer has not been
                        \* called for it since, other than by the timer
  lastDelay,            \* per server path: the delay of the setTimeout call
                        \* that scheduled its latest retry (0: none yet)
  explicit,             \* the attempts in `connecting` that a caller of
                        \* connectToServer awaits (the others were started
                        \* by a retry timer, which awaits nothing)
  told,                 \* the server paths whose caller saw connectToServer
                        \* reject while the server was not connected and no
                        \* other attempt was in flight, and for which
                        \* connectToServer has not been called since, other
                        \* than by the timer
  normCall,             \* the normalization under test and its argument
  normResults,          \* its results: of the argument, then of that result
  connections,          \* MCPConnectionManager.connections: its keys
  transportMap,         \* MCPConnectionManager.transportMap: its keys
  mgrPending,           \* MCPConnectionManager: calls that are at an await
  mgrReply,             \* what MCPConnectionManager.disconnectFromServer
                        \* returned, when the step just taken ended one
  mgrClients,           \* MCPConnectionManager: the Client objects it has
                        \* created, and which of them are open
  vctPc,                \* where validateAndCallTool is
  vctCall,              \* validateAndCallTool: the tool's inputSchema and
                        \* inputData
  vctOutcome,           \* validateAndCallTool: the error it threw, or the
                        \* arguments it handed to client.callTool
  parserCall,           \* the response parser that ran last, and its content
  parserOut,            \* what it returned: the cleaned content and the tool
                        \* calls
  pctPc,                \* where performComplexTask is
  maxIterations,        \* performComplexTask: its const maxIterations
  iterations,           \* performComplexTask: its counter
  pctMessages,          \* performComplexTask: the length of its messages
  pctToolsLeft,         \* agentFlow's processLLMResponse: the tool calls
                        \* of the response it has not called yet
  pctSent,              \* the sendMessage calls made: inside the loop, and
                        \* for the final summary
  pctBroke,             \* the loop was left by its break
  completed,            \* performComplexTask: the result's `completed`
  mcpConfig,            \* server.ts mcpConfig.mcpServers: its keys
  configFile,           \* mcp_config.json: the keys of its mcpServers
  srvConnecting,        \* POST /api/servers/connect handlers that are at
                        \* `await mcpClient.connectToServer`
  srvConnected,         \* the ids mcpClient.isConnected answers true for
  srvReply              \* the answer of POST /api/servers/connect, when the
                        \* step just taken sent one

serverVars == <<approvalCallback, pendingApprovals, approvals, now, conversationHistory,
                pc, toolCalls, messages, callToolLog, approveReply>>
lwtVars == <<lwtPc, lwtCalls>>
plrVars == <<plrPc, plrCalls, plrMessages, plrFollowUps, plrResponse>>
regVars == <<connectedServers, serverTools, tools, reconnectAttempts, connecting,
             retryTimers, retriesScheduled, regReply, abandoned, explicit, told,
             lastDelay>>
normVars == <<normCall, normResults>>
mgrVars == <<connections, transportMap, mgrPending, mgrReply, mgrClients>>
vctVars == <<vctPc, vctCall, vctOutcome>>
parserVars == <<parserCall, parserOut>>
pctVars == <<pctPc, maxIterations, iterations, pctMessages, pctToolsLeft, pctSent,
            pctBroke, completed>>
srvVars == <<mcpConfig, configFile, srvConnecting, srvConnected, srvReply>>
vars == <<serverVars, lwtVars, plrVars, regVars, normVars, mgrVars, vctVars, parserVars,
          pctVars, srvVars>>

\* what the handlers of one component leave alone
exceptServer == <<lwtVars, plrVars, regVars, normVars, mgrVars, vctVars, parserVars,
  pctVars, srvVars>>
exceptLwt == <<serverVars, plrVars, regVars, normVars, mgrVars, vctVars, parserVars,
  pctVars, srvVars>>
exceptPlr == <<serverVars, lwtVars, regVars, normVars, mgrVars, vctVars, parserVars,
  pctVars, srvVars>>
exceptReg == <<serverVars, lwtVars, plrVars, normVars, mgrVars, vctVars, parserVars,
  pctVars, srvVars>>
exceptNorm == <<serverVars, lwtVars, plrVars, regVars, mgrVars, vctVars, parserVars,
  pctVars, srvVars>>
exceptMgr == <<serverVars, lwtVars, plrVars, regVars, normVars, vctVars, parserVars,
  pctVars, srvVars>>
exceptVct == <<serverVars, lwtVars, plrVars, regVars, normVars, mgrVars, parserVars,
  pctVars, srvVars>>
exceptParser == <<serverVars, lwtVars, plrVars, regVars, normVars, mgrVars, vctVars,
  pctVars, srvVars>>
exceptPct == <<serverVars, lwtVars, plrVars, regVars, normVars, mgrVars, vctVars,
  parserVars, srvVars>>
exceptSrv == <<serverVars, lwtVars, plrVars, regVars, normVars,
  mgrVars, vctVars, parserVars, pctVars>>

(* ------------------------------ helpers ------------------------------- *)
\* the sequences over S of length n at most
RECURSIVE SeqsUpTo(_, _)
SeqsUpTo(S, n) ==
  IF n = 0 THEN {<<>>}
  ELSE LET shorter == SeqsUpTo(S, n - 1)
       IN shorter \cup {Append(q, x) : q \in {p \in shorter : Len(p) = n - 1}, x \in S}

\* the tool_use blocks of a model response
ToolUse == [name : ProvidedTools, args : ArgValues] \cup [name : ToolNames \ ProvidedTools, args : {{}}]

Msg(role, kind, s, i) == [role |-> role, kind |-> kind, s |-> s, i |-> i]

\* JavaScript truthiness of a JSON value
Truthy(v) == v \in {"true", "\"true\""}
\* `approved === true`, `hasUiCallback === true`
StrictTrue(v) == v = "true"

\* `${toolName}_${Date.now()}`
ApprovalId(toolName, t) == <<toolName, t>>

\* The resolve function of a promise p, called with v: only the first
\* call settles p and releases the continuation awaiting it. `by` notes
\* the caller: "timeout", or the `approved` value of the decision.
ResolveOverwrites(p, v, by) ==
  [p EXCEPT !.settled = TRUE, !.value = v, !.resumed = p.resumed + 1, !.by = by]
Resolve(p, v, by) ==
  IF p.settled THEN p
  ELSE [p EXCEPT !.settled = TRUE, !.value = v, !.resumed = p.resumed + 1, !.by = by]

(* ------------------- the pending-approval Map ------------------------- *)
MapHas(m, id) == \E e \in m : e[1] = id
MapGet(m, id) == (CHOOSE e \in m : e[1] = id)[2]
MapDelete(m, id) == {e \in m : e[1] # id}
MapSet(m, id, r) == MapDelete(m, id) \cup {<<id, r>>}

(* ----------------- MCPClient.processQueryStructured ------------------- *)
\* POST /api/chat up to the first await: the user message is pushed and
\* the model is invoked with a copy of the history.
ChatStart(s) ==
  /\ pc[s] = "idle"
  /\ \A q \in Sessions : q < s => pc[q] # "idle"
  /\ now <= MaxClockMs
  /\ LET hist == Append(conversationHistory, Msg("user", "query", s, 0))
     IN /\ conversationHistory' = hist
        /\ messages' = [messages EXCEPT ![s] = hist]
  /\ pc' = [pc EXCEPT ![s] = "model"]
  /\ approveReply' = NoReply
  /\ UNCHANGED <<approvalCallback, pendingApprovals, approvals, now, toolCalls, callToolLog>>
  /\ UNCHANGED exceptServer

\* The approval callback installed by /api/set-approval-callback
\* {hasUiCallback: true}: a new promise, its table entry and its timer.
NewApproval(s, i, blk) ==
  [toolName |-> blk.name, args |-> blk.args, session |-> s, call |-> i,
   id |-> ApprovalId(blk.name, now), createdAt |-> now,
   settled |-> FALSE, value |-> FALSE, resumed |-> 0, by |-> "none",
   timerFired |-> FALSE]

\* stands for the end of response.content
NoBlock == [name |-> "", args |-> {}]

RECURSIVE SumLen(_, _)
SumLen(f, S) ==
  IF S = {} THEN 0
  ELSE LET x == CHOOSE y \in S : TRUE IN Len(f[x]) + SumLen(f, S \ {x})

\* how many more tool_use blocks the model may emit
BlocksLeft == MaxBlocks - SumLen(toolCalls, Sessions)

\* The synchronous code from the top of one iteration of
\* `for (const content of response.content)` to its next await, or, when
\* the blocks are used up, to the return of the result. The loop reads a
\* block of response.content only when it gets to it, so the block is
\* drawn here: blk is the next tool_use block, or NoBlock at the end.
\* hist, tcs and msgs are the history, result.toolCalls and messages as
\* the code before it left them.
Iterate(s, blk, hist, tcs, msgs) ==
  LET i == Len(tcs) + 1 IN
  IF blk = NoBlock
  THEN /\ pc' = [pc EXCEPT ![s] = "returned"]
       /\ conversationHistory' =
            IF tcs = <<>> THEN Append(hist, Msg("assistant", "text", s, 0)) ELSE hist
       /\ toolCalls' = [toolCalls EXCEPT ![s] = tcs]
       /\ messages' = [messages EXCEPT ![s] = msgs]
       /\ approveReply' = NoReply
       /\ UNCHANGED <<approvals, pendingApprovals, callToolLog>>
  ELSE LET tc == [name |-> blk.name, args |-> blk.args, status |-> "pending",
                  result |-> "none"]
       IN /\ BlocksLeft > 0
          /\ toolCalls' = [toolCalls EXCEPT ![s] = Append(tcs, tc)]
          /\ messages' = [messages EXCEPT ![s] = msgs]
          /\ conversationHistory' = hist
          /\ approveReply' = NoReply
          /\ IF approvalCallback = "ui"
             THEN /\ approvals' = Append(approvals, NewApproval(s, i, blk))
                  /\ pendingApprovals' =
                       MapSet(pendingApprovals, ApprovalId(blk.name, now),
                              Len(approvals) + 1)
                  /\ pc' = [pc EXCEPT ![s] = "approval"]
                  /\ UNCHANGED callToolLog
             ELSE \* no callback, or the auto-approving one: shouldExecute
                  /\ callToolLog' = callToolLog \cup {<<s, i>>}
                  /\ pc' = [pc EXCEPT ![s] = "tool"]
                  /\ UNCHANGED <<approvals, pendingApprovals>>

\* anthropic.messages.create of the user's query answers
ModelReturns(s, blk) ==
  /\ pc[s] = "model"
  /\ Iterate(s, blk, conversationHistory, <<>>, messages[s])
  /\ UNCHANGED <<approvalCallback, now>>
  /\ UNCHANGED exceptServer

\* anthropic.messages.create of the user's query throws: the exception
\* leaves processQueryStructured and /api/chat answers 500
ModelThrows(s) ==
  /\ pc[s] = "model"
  /\ pc' = [pc EXCEPT ![s] = "failed"]
  /\ approveReply' = NoReply
  /\ UNCHANGED <<approvalCallback, pendingApprovals, approvals, now,
                 conversationHistory, toolCalls, messages, callToolLog>>
  /\ UNCHANGED exceptServer

SetStatus(tcs, i, status, result) ==
  [tcs EXCEPT ![i] = [@ EXCEPT !.status = status, !.result = result]]

CatchBlockUnshift(s, i, result) ==
  /\ toolCalls' = [toolCalls EXCEPT ![s] = SetStatus(@, i, "error", result)]
  /\ conversationHistory' = <<Msg("user", "error", s, i)>> \o conversationHistory
  /\ messages' = [messages EXCEPT ![s] = Append(@, Msg("user", "error", s, i))]
  /\ pc' = [pc EXCEPT ![s] = "errfollow"]

\* `catch (error)` of the try around callTool and the follow-up request:
\* the call becomes 'error', the error text is pushed and the model is
\* asked again (inside the catch block)
CatchBlock(s, i, result) ==
  /\ toolCalls' = [toolCalls EXCEPT ![s] = SetStatus(@, i, "error", result)]
  /\ conversationHistory' = Append(conversationHistory, Msg("user", "error", s, i))
  /\ messages' = [messages EXCEPT ![s] = Append(@, Msg("user", "error", s, i))]
  /\ pc' = [pc EXCEPT ![s] = "errfollow"]

\* this.mcp.callTool answers; the code does not look at isError, so any
\* answer makes the call a 'success'
ToolReturns(s) ==
  LET i == Len(toolCalls[s]) IN
  /\ pc[s] = "tool"
  /\ toolCalls' = [toolCalls EXCEPT ![s] = SetStatus(@, i, "success", "executionResult")]
  /\ conversationHistory' = Append(conversationHistory, Msg("user", "result", s, i))
  /\ messages' = [messages EXCEPT ![s] = Append(@, Msg("user", "result", s, i))]
  /\ pc' = [pc EXCEPT ![s] = "followup"]
  /\ approveReply' = NoReply
  /\ UNCHANGED <<approvalCallback, pendingApprovals, approvals, now, callToolLog>>
  /\ UNCHANGED exceptServer

\* this.mcp.callTool throws
ToolThrows(s) ==
  /\ pc[s] = "tool"
  /\ CatchBlock(s, Len(toolCalls[s]), "toolError")
  /\ approveReply' = NoReply
  /\ UNCHANGED <<approvalCallback, pendingApprovals, approvals, now, callToolLog>>
  /\ UNCHANGED exceptServer

\* the follow-up request after a tool result answers: its text is pushed
\* to the history and the loop goes on
FollowUpReturns(s, blk) ==
  LET i == Len(toolCalls[s]) IN
  /\ pc[s] = "followup"
  /\ Iterate(s, blk,
             Append(conversationHistory, Msg("assistant", "followup", s, i)),
             toolCalls[s], messages[s])
  /\ UNCHANGED <<approvalCallback, now>>
  /\ UNCHANGED exceptServer

\* the follow-up request after a tool result throws, inside the same try
FollowUpThrows(s) ==
  /\ pc[s] = "followup"
  /\ CatchBlock(s, Len(toolCalls[s]), "llmError")
  /\ approveReply' = NoReply
  /\ UNCHANGED <<approvalCallback, pendingApprovals, approvals, now, callToolLog>>
  /\ UNCHANGED exceptServer

\* the request made in the catch block, or after a rejection, answers
NoteFollowUpReturns(s, blk) ==
  LET i == Len(toolCalls[s]) IN
  /\ pc[s] \in {"errfollow", "rejfollow"}
  /\ Iterate(s, blk,
             Append(conversationHistory,
                    Msg("assistant", IF pc[s] = "errfollow" THEN "errorResponse"
                                     ELSE "nonApprovalResponse", s, i)),
             toolCalls[s], messages[s])
  /\ UNCHANGED <<approvalCallback, now>>
  /\ UNCHANGED exceptServer

\* ... or throws: nothing catches it, processQueryStructured rejects and
\* /api/chat answers 500
NoteFollowUpThrows(s) ==
  /\ pc[s] \in {"errfollow", "rejfollow"}
  /\ pc' = [pc EXCEPT ![s] = IF pc[s] = "errfollow" THEN "failedInCatch" ELSE "failed"]
  /\ approveReply' = NoReply
  /\ UNCHANGED <<approvalCallback, pendingApprovals, approvals, now,
                 conversationHistory, toolCalls, messages, callToolLog>>
  /\ UNCHANGED exceptServer

\* The continuation of `await this.getUserApproval(...)` for promise p,
\* run when p is settled with v.
Resume(p, v) ==
  LET s == p.session
      i == p.call
  IN IF v
     THEN /\ callToolLog' = callToolLog \cup {<<s, i>>}
          /\ pc' = [pc EXCEPT ![s] = "tool"]
          /\ UNCHANGED <<toolCalls, conversationHistory, messages>>
     ELSE /\ toolCalls' = [toolCalls EXCEPT ![s] = SetStatus(@, i, "not_approved", "notApproved")]
          /\ conversationHistory' = Append(conversationHistory, Msg("user", "notApproved", s, i))
          /\ messages' = [messages EXCEPT ![s] = Append(@, Msg("user", "notApproved", s, i))]
          /\ pc' = [pc EXCEPT ![s] = "rejfollow"]
          /\ UNCHANGED callToolLog

\* p.resolve(v) called by `by`, with the continuation it releases
Settle(r, v, by, fired) ==
  LET p == approvals[r]
      q == Resolve(p, v, by)
  IN /\ approvals' = [approvals EXCEPT ![r] = [q EXCEPT !.timerFired = fired]]
     /\ IF q.resumed > p.resumed
        THEN Resume(p, q.value)
        ELSE UNCHANGED <<toolCalls, conversationHistory, messages, pc, callToolLog>>

(* ------------------------------ server.ts ------------------------------ *)
SetApprovalCallbackClears(hasUiCallback) ==
  /\ approvalCallback' = IF StrictTrue(hasUiCallback) THEN "ui" ELSE "auto"
  /\ pendingApprovals' = {}
  /\ approveReply' = NoReply
  /\ UNCHANGED <<approvals, now, conversationHistory, pc, toolCalls, messages, callToolLog>>
  /\ UNCHANGED exceptServer

\* POST /api/set-approval-callback {hasUiCallback}
SetApprovalCallback(hasUiCallback) ==
  /\ approvalCallback' = IF StrictTrue(hasUiCallback) THEN "ui" ELSE "auto"
  /\ approveReply' = NoReply
  /\ UNCHANGED <<pendingApprovals, approvals, now, conversationHistory, pc, toolCalls, messages, callToolLog>>
  /\ UNCHANGED exceptServer

\* every request created under this id has been resolved
PriorResolved(id) ==
  /\ \E r \in DOMAIN approvals : approvals[r].id = id
  /\ \A r \in DOMAIN approvals : approvals[r].id = id => approvals[r].settled

\* the ids a client posts: those it has seen listed by
\* GET /api/pending-approvals at some time (a post without an id is
\* answered 400 and changes nothing)
PostableIds == {approvals[r].id : r \in DOMAIN approvals}

ApproveReply(status, id) ==
  [handler |-> "approve-tool", status |-> status, priorResolved |-> PriorResolved(id)]

\* POST /api/approve-tool {id, approved}, id not in the table: 404
ApproveToolNotFound(id) ==
  /\ id # EmptyId
  /\ ~MapHas(pendingApprovals, id)
  /\ approveReply' = ApproveReply(404, id)
  /\ UNCHANGED <<approvalCallback, pendingApprovals, approvals, now,
                 conversationHistory, pc, toolCalls, messages, callToolLog>>
  /\ UNCHANGED exceptServer

\* POST /api/approve-tool {id, approved}, id in the table: the entry's
\* resolve is called with `approved === true`, the entry is deleted: 200
ApproveTool(id, approved) ==
  /\ id # EmptyId
  /\ MapHas(pendingApprovals, id)
  /\ Settle(MapGet(pendingApprovals, id), StrictTrue(approved), approved,
            approvals[MapGet(pendingApprovals, id)].timerFired)
  /\ pendingApprovals' = MapDelete(pendingApprovals, id)
  /\ approveReply' = ApproveReply(200, id)
  /\ UNCHANGED <<approvalCallback, now>>
  /\ UNCHANGED exceptServer

TimerFailsOpen(r) ==
  /\ ~approvals[r].timerFired
  /\ now >= approvals[r].createdAt + ApprovalTimeoutMs
  /\ Settle(r, TRUE, "timeout", TRUE)
  /\ approveReply' = NoReply
  /\ UNCHANGED <<approvalCallback, pendingApprovals, now>>
  /\ UNCHANGED exceptServer

\* the setTimeout callback of request r, 30 s after its creation:
\* resolve(false); the table entry stays
TimerFires(r) ==
  /\ ~approvals[r].timerFired
  /\ now >= approvals[r].createdAt + ApprovalTimeoutMs
  /\ Settle(r, FALSE, "timeout", TRUE)
  /\ approveReply' = NoReply
  /\ UNCHANGED <<approvalCallback, pendingApprovals, now>>
  /\ UNCHANGED exceptServer

\* POST /api/conversation/reset: MCPClient.resetConversation()
ResetConversation ==
  /\ conversationHistory # <<>>
  /\ conversationHistory' = <<>>
  /\ approveReply' = NoReply
  /\ UNCHANGED <<approvalCallback, pendingApprovals, approvals, now, pc, toolCalls,
                 messages, callToolLog>>
  /\ UNCHANGED exceptServer

\* time passes
Tick ==
  /\ \/ now < MaxClockMs
     \/ \E r \in DOMAIN approvals :
          ~approvals[r].timerFired /\ now < approvals[r].createdAt + ApprovalTimeoutMs
  /\ now' = now + ClockStepMs
  /\ approveReply' = NoReply
  /\ UNCHANGED <<approvalCallback, pendingApprovals, approvals, conversationHistory,
                 pc, toolCalls, messages, callToolLog>>
  /\ UNCHANGED exceptServer

(* ------------------------ utils/schema.ts ----------------------------- *)
\* inputSchema of the tool "calculate": an object with three declared
\* properties, all of them required
InputSchema(name) ==
  [properties |-> {"operation", "a", "b"}, required |-> {"operation", "a", "b"}]

\* createZodSchema(schema).parse(args) of an object schema succeeds: the
\* shape is z.object(shape) with one member per declared property, and a
\* member of a zod object must be present
SchemaAccepts(schema, args) == schema.properties \subseteq args

(* --------------------- utils/validateAndCallTool.ts ------------------- *)
\* what validateAndCallTool does once client.listTools() has answered:
\* "notFound" and "invalid" are thrown errors, "call" is client.callTool
Validate(name, args) ==
  IF name \notin ProvidedTools THEN "notFound"
  ELSE IF ~SchemaAccepts(InputSchema(name), args) THEN "invalid"
  ELSE "call"

(* ------------------ utils/schema.ts: createZodSchema ------------------- *)
\* JSON values: a number, a string, an object (its members in `fields`),
\* and undefined for a member that is absent
EmptyFn == [k \in {} |-> ""]
Undef == [t |-> "undefined", s |-> "", fields |-> EmptyFn]
NumV == [t |-> "number", s |-> "1", fields |-> EmptyFn]
StrV == [t |-> "string", s |-> "x", fields |-> EmptyFn]
ObjV(f) == [t |-> "object", s |-> "", fields |-> f]

\* a keyword whose value should be a list: undefined, a list, or another
\* truthy value
Absent == [is |-> "undefined", list |-> <<>>]
List(l) == [is |-> "list", list |-> l]
NotAList == [is |-> "other", list |-> <<>>]

\* A schema node. `node` is the JSON value it is: an object (with the
\* keywords below), null, true, false, or a number. The schemas that are
\* compiled carry no other keyword than these.
EmptyNode ==
  [node |-> "object", ref |-> FALSE, type |-> "undefined", oneOf |-> Absent,
   anyOf |-> Absent, allOf |-> Absent, pattern |-> "undefined", enum |-> Absent,
   hasProperties |-> FALSE, properties |-> EmptyFn, required |-> Absent]
Typed(type) == [EmptyNode EXCEPT !.type = type]
JsonNode(v) == [EmptyNode EXCEPT !.node = v]

\* a compiled zod schema
Z(kind) ==
  [z |-> kind, shape |-> EmptyFn, opts |-> <<>>, regex |-> "undefined", values |-> <<>>]
\* createZodSchema does not return: a TypeError or SyntaxError leaves it
Throws == Z("throws")

\* new RegExp(pattern) is a SyntaxError
InvalidRegex(pattern) == pattern = "("

RECURSIVE createZodSchema(_)

\* schema.oneOf / schema.anyOf
UnionOf(kw) ==
  IF kw.is = "other" THEN Throws   \* .map is not a function
  ELSE LET schemas == [i \in DOMAIN kw.list |-> createZodSchema(kw.list[i])]
       IN IF \E i \in DOMAIN schemas : schemas[i].z = "throws" THEN Throws
          ELSE IF Len(schemas) = 0 THEN Z("any")
          ELSE IF Len(schemas) = 1 THEN schemas[1]
          ELSE [Z("union") EXCEPT !.opts = schemas]

\* schema.allOf.reduce((acc, s) => z.intersection(acc, createZodSchema(s)),
\* z.any()) over the first n members
RECURSIVE AllOf(_, _)
AllOf(list, n) ==
  IF n = 0 THEN Z("any")
  ELSE LET acc == AllOf(list, n - 1)
           s == createZodSchema(list[n])
       IN IF acc.z = "throws" \/ s.z = "throws" THEN Throws
          ELSE [Z("intersection") EXCEPT !.opts = <<acc, s>>]

createZodSchema(schema) ==
  IF schema.node = "true" THEN Z("any")
  ELSE IF schema.node = "false" THEN Z("never")
  ELSE IF schema.node = "null" THEN Throws   \* schema.$ref of null
  ELSE IF schema.node # "object" THEN Z("any")   \* every keyword reads undefined
  ELSE IF schema.ref THEN Z("any")
  ELSE IF schema.oneOf.is # "undefined" THEN UnionOf(schema.oneOf)
  ELSE IF schema.anyOf.is # "undefined" THEN UnionOf(schema.anyOf)
  ELSE IF schema.allOf.is # "undefined"
    THEN IF schema.allOf.is = "other" THEN Throws   \* .reduce is not a function
         ELSE AllOf(schema.allOf.list, Len(schema.allOf.list))
  ELSE IF schema.type = "string"
    THEN IF schema.pattern # "undefined" /\ InvalidRegex(schema.pattern) THEN Throws
         ELSE IF schema.enum.is # "undefined"
           THEN [Z("enum") EXCEPT !.values = schema.enum.list]
         ELSE [Z("string") EXCEPT !.regex = schema.pattern]
  ELSE IF schema.type \in {"number", "integer"}
    THEN IF schema.enum.is # "undefined"
           THEN [Z("enum") EXCEPT !.values = schema.enum.list]
         ELSE Z("number")
  ELSE IF schema.type = "boolean" THEN Z("boolean")
  ELSE IF schema.type = "null" THEN Z("null")
  ELSE IF schema.type = "array" THEN Z("array")
  ELSE IF schema.type = "object" \/ (schema.type = "undefined" /\ schema.hasProperties)
    THEN \* `required` only copies the shape: partialShape[key] = partialShape[key]
         LET shape == [k \in DOMAIN schema.properties |->
                         createZodSchema(schema.properties[k])]
         IN IF \E k \in DOMAIN shape : shape[k].z = "throws" THEN Throws
            ELSE [Z("object") EXCEPT !.shape = shape]
  ELSE Z("any")

(* ------------------------------ zod: parse ----------------------------- *)
\* the result of safeParse: the issues by their paths, or the output
Ok(v) == [ok |-> TRUE, issues |-> {}, out |-> v]
Fail == [ok |-> FALSE, issues |-> {<<>>}, out |-> Undef]

\* RegExp.test
RegexTest(pattern, s) == <<pattern, s>> \in {<<"[a-z]+", "x">>}

\* mergeValues of ZodIntersection: objects are merged member by member,
\* other values must be equal
MergeValues(a, b) ==
  IF a.t = "object" /\ b.t = "object"
  THEN Ok(ObjV([k \in DOMAIN a.fields \cup DOMAIN b.fields |->
                  IF k \in DOMAIN b.fields THEN b.fields[k] ELSE a.fields[k]]))
  ELSE IF a = b THEN Ok(a) ELSE Fail

RECURSIVE ZodParse(_, _)

\* ZodUnion: the first option that accepts the value
RECURSIVE FirstOk(_, _, _)
FirstOk(opts, v, i) ==
  IF i > Len(opts) THEN Fail
  ELSE LET r == ZodParse(opts[i], v) IN IF r.ok THEN r ELSE FirstOk(opts, v, i + 1)

ZodParse(z, v) ==
  IF z.z = "any" THEN Ok(v)
  ELSE IF z.z = "never" THEN Fail
  ELSE IF z.z = "string"
    THEN IF v.t = "string" /\ (z.regex = "undefined" \/ RegexTest(z.regex, v.s))
         THEN Ok(v) ELSE Fail
  ELSE IF z.z = "enum"
    THEN IF v.t = "string" /\ \E i \in DOMAIN z.values : z.values[i] = v.s
         THEN Ok(v) ELSE Fail
  ELSE IF z.z \in {"number", "boolean", "null", "array"}
    THEN IF v.t = z.z THEN Ok(v) ELSE Fail
  ELSE IF z.z = "union" THEN FirstOk(z.opts, v, 1)
  ELSE IF z.z = "intersection"
    THEN LET l == ZodParse(z.opts[1], v)
             r == ZodParse(z.opts[2], v)
         IN IF l.ok /\ r.ok THEN MergeValues(l.out, r.out)
            ELSE [ok |-> FALSE, issues |-> l.issues \cup r.issues, out |-> Undef]
  ELSE \* ZodObject, unknownKeys: 'strip'
    IF v.t # "object" THEN Fail
    ELSE LET sub == [k \in DOMAIN z.shape |->
                       ZodParse(z.shape[k],
                                IF k \in DOMAIN v.fields THEN v.fields[k] ELSE Undef)]
             bad == {k \in DOMAIN z.shape : ~sub[k].ok}
         IN IF bad # {}
            THEN [ok |-> FALSE,
                  issues |-> UNION {{<<k>> \o path : path \in sub[k].issues} : k \in bad},
                  out |-> Undef]
            ELSE Ok(ObjV([k \in {j \in DOMAIN z.shape :
                                   j \in DOMAIN v.fields \/ sub[j].out.t # "undefined"}
                            |-> sub[k].out]))

(* --------------------- validateAndCallTool, in full -------------------- *)
\* property names: "a" and "b" are declared by the schemas, "c" by none
Keys == {"a", "b", "c"}
Declared == {"a", "b"}

\* inputData: an object with any of the keys, each a number or a string
Inputs ==
  {ObjV(f) : f \in UNION {[d -> {NumV, StrV}] : d \in SUBSET Keys}}

\* object schemas over the declared properties
ObjectSchemas ==
  {[EmptyNode EXCEPT !.type = type, !.hasProperties = TRUE, !.properties = props,
                     !.required = req] :
     type \in {"object", "undefined"},
     props \in [Declared -> {Typed("number"), EmptyNode}],
     req \in {Absent, List(<<"a">>), List(<<"a", "b">>)}}

\* schemas a tool server can send that are not well formed, or are of a
\* shape createZodSchema has no case for
OddSchemas ==
  {JsonNode("null"), JsonNode("5"), JsonNode("true"), JsonNode("false"),
   Typed("widget"), EmptyNode,
   [EmptyNode EXCEPT !.ref = TRUE],
   [EmptyNode EXCEPT !.oneOf = NotAList],
   [EmptyNode EXCEPT !.anyOf = NotAList],
   [EmptyNode EXCEPT !.allOf = NotAList],
   [EmptyNode EXCEPT !.oneOf = List(<<>>)],
   [EmptyNode EXCEPT !.anyOf = List(<<Typed("number"), Typed("object")>>)],
   [EmptyNode EXCEPT !.allOf = List(<<Typed("object")>>)],
   [Typed("string") EXCEPT !.enum = List(<<>>)],
   [Typed("string") EXCEPT !.pattern = "("],
   [Typed("object") EXCEPT !.hasProperties = TRUE,
      !.properties = [k \in {"a"} |-> [Typed("string") EXCEPT !.pattern = "("]]],
   [Typed("object") EXCEPT !.hasProperties = TRUE,
      !.properties = [k \in {"a"} |-> [Typed("string") EXCEPT !.pattern = "[a-z]+"]]],
   [Typed("object") EXCEPT !.hasProperties = TRUE,
      !.properties = [k \in {"a"} |-> JsonNode("null")]]}

Schemas == ObjectSchemas \cup OddSchemas

NoVctCall == [schema |-> EmptyNode, input |-> Undef]
NoOutcome == [kind |-> "none", issues |-> {}, arguments |-> Undef]

\* validateAndCallTool(client, toolName, inputData) up to
\* `await client.listTools()`
VctStart(schema, input) ==
  /\ vctPc \in {"idle", "returned", "threw"}
  /\ vctPc' = "listTools"
  /\ vctCall' = [schema |-> schema, input |-> input]
  /\ vctOutcome' = NoOutcome
  /\ UNCHANGED exceptVct

\* listTools answers: without the tool, 'Tool not found' is thrown; with
\* it, its inputSchema is compiled and inputData parsed, and the parsed
\* value is handed to client.callTool. A ZodError is thrown again as
\* 'Invalid input', any other error as it is.
VctListToolsReturns(found) ==
  /\ vctPc = "listTools"
  /\ LET schema == createZodSchema(vctCall.schema)
         validatedInput == ZodParse(schema, vctCall.input)
     IN IF ~found
        THEN /\ vctPc' = "threw"
             /\ vctOutcome' = [NoOutcome EXCEPT !.kind = "notFound"]
        ELSE IF schema.z = "throws"
        THEN /\ vctPc' = "threw"
             /\ vctOutcome' = [NoOutcome EXCEPT !.kind = "compileError"]
        ELSE IF ~validatedInput.ok
        THEN /\ vctPc' = "threw"
             /\ vctOutcome' = [NoOutcome EXCEPT !.kind = "invalid",
                                                !.issues = validatedInput.issues]
        ELSE /\ vctPc' = "callTool"
             /\ vctOutcome' = [NoOutcome EXCEPT !.kind = "callTool",
                                                !.arguments = validatedInput.out]
  /\ UNCHANGED <<vctCall, exceptVct>>

\* client.callTool answers
VctCallToolReturns ==
  /\ vctPc = "callTool"
  /\ vctPc' = "returned"
  /\ UNCHANGED <<vctCall, vctOutcome, exceptVct>>

\* client.callTool throws
VctCallToolThrows ==
  /\ vctPc = "callTool"
  /\ vctPc' = "threw"
  /\ vctOutcome' = [vctOutcome EXCEPT !.kind = "toolError"]
  /\ UNCHANGED <<vctCall, exceptVct>>

(* ------------------- response text and JSON fragments ------------------ *)
\* A text is a sequence of tokens, each standing for these characters:
\*   "TC"   Tool call: calc            "AR"   ` Arguments: `
\*   "RE"   ` Result: `                "{" "}" "," the characters
\*   "QA"   "a":1                      "UA"   a:1
\*   "SQ"   'a':1                      "ST"   "success":true
\*   "SF"   "success":false            "W"    (ok)
\*   "DNA"  "data":"I'll use the calc tool"
\*   "NA"   I'll use the calc tool     "."    the character
\*   "BO"   `[Calling tool calc with args `     "BC"  ]
\*   "FO"   ```js and a newline        "FC"   ```
\*   "CB"   [Code block 1]             "CR"   [Code block rendered]
\*   "SP"   a space                    "N"    a newline
\* No token is the start of, or runs into, another: a text has one
\* sequence of tokens.
WS == {"SP", "N"}

Min(S) == CHOOSE x \in S : \A y \in S : x <= y
Max(S) == CHOOSE x \in S : \A y \in S : x >= y

\* the tokens of text at the positions in S, in order
RECURSIVE Keep(_, _)
Keep(text, S) ==
  IF text = <<>> THEN <<>>
  ELSE LET rest == Keep(Tail(text), {i - 1 : i \in S \ {1}})
       IN IF 1 \in S THEN <<Head(text)>> \o rest ELSE rest

\* String.prototype.trim
Trim(text) ==
  LET inked == {i \in DOMAIN text : text[i] \notin WS}
  IN IF inked = {} THEN <<>> ELSE SubSeq(text, Min(inked), Max(inked))

\* the first position from p on that holds no whitespace
SkipWs(text, p) == Min({i \in p..(Len(text) + 1) : i > Len(text) \/ text[i] \notin WS})

\* members of an object that JSON.parse accepts
JsonMembers == {"QA", "ST", "SF", "DNA"}

\* JSON.parse(text): an object is returned as the sequence of its members,
\* anything else is a SyntaxError
JsonError == <<"SyntaxError">>
JsonParse(text) ==
  LET inked == Keep(text, {i \in DOMAIN text : text[i] \notin WS})
      n == Len(inked)
  IN IF /\ n >= 2 /\ inked[1] = "{" /\ inked[n] = "}"
        /\ n % 2 = IF n = 2 THEN 0 ELSE 1
        /\ \A i \in 2..(n - 1) :
             IF i % 2 = 0 THEN inked[i] \in JsonMembers ELSE inked[i] = ","
     THEN Keep(inked, {i \in 2..(n - 1) : i % 2 = 0})
     ELSE JsonError

\* replace(/,\s*([\]}])/g, '$1'): a comma before a closing brace goes
TrailingCommas(text) ==
  Keep(text, {i \in DOMAIN text :
                ~(/\ text[i] = ","
                  /\ SkipWs(text, i + 1) <= Len(text)
                  /\ text[SkipWs(text, i + 1)] \in {"}", "BC"})})

\* the last position before p that holds no whitespace, or 0
BackWs(text, p) == Max({0} \cup {i \in 1..(p - 1) : text[i] \notin WS})

\* replace(/([{,]\s*)(\w+)(\s*:)/g, '$1"$2"$3'): a bare property name
\* after an opening brace or a comma is quoted
QuoteNames(text) ==
  [i \in DOMAIN text |->
     IF /\ text[i] = "UA"
        /\ BackWs(text, i) > 0
        /\ text[BackWs(text, i)] \in {"{", ","}
     THEN "QA" ELSE text[i]]

\* replace(/'([^']+)'/g, '"$1"'). (The apostrophe of "NA" or "DNA" pairs
\* with the next one; the texts where one follows hold a "TC" between
\* their braces and are no JSON either way.)
DoubleQuotes(text) == [i \in DOMAIN text |-> IF text[i] = "SQ" THEN "QA" ELSE text[i]]

\* substring(indexOf('{'), lastIndexOf('}') + 1), when both exist
Braces(text) ==
  LET open == {i \in DOMAIN text : text[i] = "{"}
      close == {i \in DOMAIN text : text[i] = "}"}
  IN IF open # {} /\ close # {} THEN SubSeq(text, Min(open), Max(close)) ELSE text

\* safeJsonParse of McpService.extractToolCalls
safeJsonParse(jsonString, fallback) ==
  IF JsonParse(Trim(jsonString)) # JsonError THEN JsonParse(Trim(jsonString))
  ELSE LET cleanJson == Braces(DoubleQuotes(QuoteNames(TrailingCommas(Trim(jsonString)))))
       IN IF JsonParse(cleanJson) # JsonError THEN JsonParse(cleanJson) ELSE fallback

\* result.success: the last member of that name; "undefined" without one
SuccessOf(result) ==
  LET at == {i \in DOMAIN result : result[i] \in {"ST", "SF"}}
  IN IF at = {} THEN "undefined" ELSE IF result[Max(at)] = "ST" THEN "true" ELSE "false"

(* --------------------------- the matchers ------------------------------ *)
NoMatch == [from |-> 0, to |-> 0, args |-> <<>>, result |-> <<>>]

\* (?=\n\nTool call:|$) after position k
Lookahead(text, k) ==
  \/ k = Len(text)
  \/ /\ k + 3 <= Len(text)
     /\ text[k + 1] = "N" /\ text[k + 2] = "N" /\ text[k + 3] = "TC"

\* the position after optional whitespace: `\s*` in extractToolCalls,
\* nothing in processMessageContent, whose pattern has single spaces
Gap(text, p, strict) == IF strict THEN p ELSE SkipWs(text, p)

Is(text, p, tok) == p \in DOMAIN text /\ text[p] = tok

\* where the lazy `({[\s\S]*?})` that opens at position o can close so
\* that what follows it matches: the closing braces of the result ...
ResultEnds(text, o) ==
  {k \in (o + 1)..Len(text) : text[k] = "}" /\ Lookahead(text, k)}
\* ... and of the arguments, followed by ` Result: ` and a result
ArgsEnds(text, o, strict) ==
  {j \in (o + 1)..Len(text) :
     /\ text[j] = "}"
     /\ Is(text, Gap(text, j + 1, strict), "RE")
     /\ Is(text, Gap(text, j + 1, strict) + 1, "{")
     /\ ResultEnds(text, Gap(text, j + 1, strict) + 1) # {}}

\* /Tool call: (\w+)\s*Arguments: ({[\s\S]*?})\s*Result: ({[\s\S]*?})
\*  (?=\n\nTool call:|$)/ tried at position i
StandardAt(text, i, strict) ==
  LET a == Gap(text, i + 1, strict) IN
  IF /\ Is(text, i, "TC") /\ Is(text, a, "AR") /\ Is(text, a + 1, "{")
     /\ ArgsEnds(text, a + 1, strict) # {}
  THEN LET j == Min(ArgsEnds(text, a + 1, strict))
           r == Gap(text, j + 1, strict) + 1
           k == Min(ResultEnds(text, r))
       IN [from |-> i, to |-> k, args |-> SubSeq(text, a + 1, j),
           result |-> SubSeq(text, r, k)]
  ELSE NoMatch

\* /\[Calling tool (\w+) with args ({[^}]+}|\{\})\]/ tried at position i
BracketAt(text, i) ==
  IF /\ Is(text, i, "BO") /\ Is(text, i + 1, "{")
     /\ \E j \in (i + 2)..Len(text) : text[j] = "}"
     /\ Is(text, Min({j \in (i + 2)..Len(text) : text[j] = "}"}) + 1, "BC")
  THEN LET j == Min({q \in (i + 2)..Len(text) : text[q] = "}"})
       IN [from |-> i, to |-> j + 1, args |-> SubSeq(text, i + 1, j), result |-> <<>>]
  ELSE NoMatch

\* /I'll use the (\w+) tool/ tried at position i
NarrativeAt(text, i) ==
  IF Is(text, i, "NA") \/ Is(text, i, "DNA")
  THEN [from |-> i, to |-> i, args |-> <<>>, result |-> <<>>]
  ELSE NoMatch

\* /```([a-zA-Z]*)\n([\s\S]*?)```/ tried at position i; the code is
\* returned as `result`. (No text has a "FO" between a "FO" and the next
\* "FC".)
FenceAt(text, i) ==
  IF Is(text, i, "FO") /\ \E j \in (i + 1)..Len(text) : text[j] = "FC"
  THEN LET j == Min({q \in (i + 1)..Len(text) : text[q] = "FC"})
       IN [from |-> i, to |-> j, args |-> <<>>, result |-> SubSeq(text, i + 1, j - 1)]
  ELSE NoMatch

\* a match m with the whitespace behind it: a trailing `\s*\n*`
WithWs(text, m) ==
  IF m = NoMatch THEN NoMatch ELSE [m EXCEPT !.to = SkipWs(text, m.to + 1) - 1]

\* /I'll use the \w+ tool\.\s*\n+/ tried at position i: the whitespace
\* behind the full stop up to its last newline
NarrativeDotAt(text, i) ==
  LET newlines == {q \in (i + 2)..(SkipWs(text, i + 2) - 1) : text[q] = "N"} IN
  IF Is(text, i, "NA") /\ Is(text, i + 1, ".") /\ newlines # {}
  THEN [from |-> i, to |-> Max(newlines), args |-> <<>>, result |-> <<>>]
  ELSE NoMatch

\* /\[Code block \d+\]\s*\n*/ tried at position i
PlaceholderAt(text, i) ==
  IF Is(text, i, "CB")
  THEN WithWs(text, [from |-> i, to |-> i, args |-> <<>>, result |-> <<>>])
  ELSE NoMatch

MatchAt(pattern, text, i) ==
  IF pattern = "standard" THEN StandardAt(text, i, FALSE)
  ELSE IF pattern = "strict" THEN StandardAt(text, i, TRUE)
  ELSE IF pattern = "bracket" THEN BracketAt(text, i)
  ELSE IF pattern = "bracketWs" THEN WithWs(text, BracketAt(text, i))
  ELSE IF pattern = "narrative" THEN NarrativeAt(text, i)
  ELSE IF pattern = "narrativeDot" THEN NarrativeDotAt(text, i)
  ELSE IF pattern = "placeholder" THEN PlaceholderAt(text, i)
  ELSE FenceAt(text, i)

\* the matches of a /g pattern, as the loop `while ((match =
\* regex.exec(content)) !== null)` gets them: leftmost first, the search
\* going on behind each match
RECURSIVE Matches(_, _, _)
Matches(pattern, text, lastIndex) ==
  LET starts == {i \in lastIndex..Len(text) : MatchAt(pattern, text, i) # NoMatch}
  IN IF starts = {} THEN <<>>
     ELSE LET m == MatchAt(pattern, text, Min(starts))
          IN <<m>> \o Matches(pattern, text, m.to + 1)

\* String.prototype.replace(pattern, replacement) with a /g pattern
RECURSIVE Splice(_, _, _)
Splice(text, ms, replacement) ==
  IF ms = <<>> THEN text
  ELSE LET m == ms[Len(ms)]
       IN Splice(SubSeq(text, 1, m.from - 1) \o replacement
                   \o SubSeq(text, m.to + 1, Len(text)),
                 SubSeq(ms, 1, Len(ms) - 1), replacement)
ReplaceAll(text, pattern, replacement) ==
  Splice(text, Matches(pattern, text, 1), replacement)

\* replace(/\n{3,}/g, '\n\n')
CollapseNewlines(text) ==
  Keep(text, {i \in DOMAIN text :
                ~(text[i] = "N" /\ i >= 3 /\ text[i - 1] = "N" /\ text[i - 2] = "N")})

\* String.prototype.replace(string, replacement): the first occurrence
ReplaceFirst(text, sub, replacement) ==
  LET at == {i \in 1..(Len(text) - Len(sub) + 1) : SubSeq(text, i, i + Len(sub) - 1) = sub}
  IN IF at = {} \/ sub = <<>> THEN text
     ELSE SubSeq(text, 1, Min(at) - 1) \o replacement
            \o SubSeq(text, Min(at) + Len(sub), Len(text))

(* ---------------- McpService: extractToolCalls, sanitize --------------- *)
\* { success: true, data: "Parsing failed, showing raw result", raw }
RawResult == <<"ST", "\"data\":\"Parsing failed, showing raw result\"", "raw">>
\* { success: true, data: "Tool execution successful" }
ExecutedResult == <<"ST", "\"data\":\"Tool execution successful\"">>
\* { success: true, data: "Code block rendered", codeBlock }
CodeBlockResult == <<"ST", "\"data\":\"Code block rendered\"", "codeBlock">>

ToolCall(pattern, m, name, args, status, result) ==
  [pattern |-> pattern, from |-> m.from, to |-> m.to, name |-> name, args |-> args,
   status |-> status, result |-> result]

\* the body of the loop over the matches of the standard pattern
StandardCall(m) ==
  LET args == safeJsonParse(m.args, <<>>)
      result == safeJsonParse(m.result, RawResult)
  IN ToolCall("standard", m, "calc", args,
              IF SuccessOf(result) = "false" THEN "error" ELSE "success", result)

BracketCall(m) ==
  ToolCall("bracket", m, "calc", safeJsonParse(m.args, <<>>), "success", ExecutedResult)

NarrativeCall(m) == ToolCall("narrative", m, "calc", <<>>, "success", ExecutedResult)

CodeBlockCall(m) == ToolCall("codeBlock", m, "code_block", <<"js">>, "success", CodeBlockResult)

\* the code blocks that do not start inside a standard match
StandaloneFences(content) ==
  LET ranges == Matches("standard", content, 1)
      fences == Matches("fence", content, 1)
  IN Keep(fences, {f \in DOMAIN fences :
                     ~\E r \in DOMAIN ranges :
                        fences[f].from >= ranges[r].from /\ fences[f].from <= ranges[r].to})

extractToolCalls(content) ==
  LET standard == Matches("standard", content, 1)
      bracket == Matches("bracket", content, 1)
      narrative == Matches("narrative", content, 1)
      fences == StandaloneFences(content)
  IN [i \in DOMAIN standard |-> StandardCall(standard[i])]
       \o [i \in DOMAIN bracket |-> BracketCall(bracket[i])]
       \o [i \in DOMAIN narrative |-> NarrativeCall(narrative[i])]
       \o [i \in DOMAIN fences |-> CodeBlockCall(fences[i])]

sanitizeContentForToolCalls(content) ==
  Trim(CollapseNewlines(
    ReplaceAll(
      ReplaceAll(
        ReplaceAll(
          ReplaceAll(
            ReplaceAll(content, "standard", <<>>),
            "bracketWs", <<>>),
          "narrativeDot", <<>>),
        "placeholder", <<>>),
      "fence", <<"CR">>)))

(* ------------------- Sidebar: processMessageContent -------------------- *)
\* { success: false, error: 'JSON parsing failed' }
FailedResult == <<"SF", "\"error\":\"JSON parsing failed\"">>

\* the two attempts at JSON.parse(argsText), JSON.parse(resultText), and
\* the fallback
SidebarCall(m) ==
  LET argsText == Trim(m.args)
      resultText == Trim(m.result)
      fixedArgs == QuoteNames(TrailingCommas(argsText))
      fixedResult == QuoteNames(TrailingCommas(resultText))
      Status(result) == IF SuccessOf(result) = "true" THEN "success" ELSE "error"
  IN IF JsonParse(argsText) # JsonError /\ JsonParse(resultText) # JsonError
     THEN ToolCall("standard", m, "calc", JsonParse(argsText),
                   Status(JsonParse(resultText)), JsonParse(resultText))
     ELSE IF JsonParse(fixedArgs) # JsonError /\ JsonParse(fixedResult) # JsonError
     THEN ToolCall("standard", m, "calc", JsonParse(fixedArgs),
                   Status(JsonParse(fixedResult)), JsonParse(fixedResult))
     ELSE ToolCall("standard", m, "calc", <<>>, "error", FailedResult)

\* cleanedContent = cleanedContent.replace(fullMatch, '') for the matches
\* ms of content, in their order
RECURSIVE RemoveMatches(_, _, _)
RemoveMatches(cleanedContent, content, ms) ==
  IF ms = <<>> THEN cleanedContent
  ELSE RemoveMatches(
         ReplaceFirst(cleanedContent, SubSeq(content, ms[1].from, ms[1].to), <<>>),
         content, Tail(ms))

\* processMessageContent(content), for a content with at most one code
\* block: the block found is replaced by `[Code block 1]`
processMessageContent(content) ==
  LET ms == Matches("strict", content, 1)
      cleaned == RemoveMatches(Keep(content, {i \in DOMAIN content : content[i] # "CR"}),
                               content, ms)
      fences == Matches("fence", cleaned, 1)
      replaced == IF fences = <<>> THEN cleaned
                  ELSE ReplaceFirst(cleaned, SubSeq(cleaned, fences[1].from, fences[1].to),
                                    <<"CB">>)
  IN [content |-> Trim(CollapseNewlines(replaced)),
      toolCalls |-> [i \in DOMAIN ms |-> SidebarCall(ms[i])]
                      \o IF fences = <<>> THEN <<>> ELSE <<CodeBlockCall(fences[1])>>]

(* ------------------------- model responses ----------------------------- *)
\* a canonical call block
Block(args, result) ==
  <<"TC", "AR", "{">> \o args \o <<"}", "RE", "{">> \o result \o <<"}">>

ArgFragments == {<<"QA">>, <<"UA">>, <<"SQ">>, <<"W">>}
ResultFragments == {<<"ST">>, <<"SF">>, <<"ST", ",">>, <<"W">>, <<"DNA">>}
Blocks == {Block(a, r) : a \in ArgFragments, r \in ResultFragments}

\* what a response is made of: call blocks, a call block that follows
\* another, prose, whitespace, narrative mentions, bracketed shorthands,
\* code blocks (one of them around a shorthand), placeholders
Segments ==
  Blocks \cup
  {<<"N", "N">> \o Block(<<"QA">>, <<"ST">>),
   <<"W">>, <<"SP">>, <<"N">>, <<"N", "N", "N">>,
   <<"NA", ".", "N">>, <<"NA">>,
   <<"BO", "{", "QA", "}", "BC">>, <<"BO", "{", "}", "BC">>,
   <<"FO", "W", "FC">>, <<"FO", "BO", "{", "}", "BC", "FC">>,
   <<"CB">>, <<"CR">>}

RECURSIVE Flatten(_)
Flatten(segments) ==
  IF segments = <<>> THEN <<>> ELSE Head(segments) \o Flatten(Tail(segments))

Contents == {Flatten(segments) : segments \in SeqsUpTo(Segments, MaxSegments)}

NoParserCall == [fn |-> "none", content |-> <<>>]
NoParserOut == [content |-> <<>>, toolCalls |-> <<>>]

\* McpService.sendMessage once /api/chat has answered with data.content
McpServiceSendMessage(content) ==
  /\ parserCall = NoParserCall
  /\ parserCall' = [fn |-> "McpService", content |-> content]
  /\ parserOut' = [content |-> sanitizeContentForToolCalls(content),
                   toolCalls |-> extractToolCalls(content)]
  /\ UNCHANGED exceptParser

\* processMessageContent of the chat layout
ProcessMessageContent(content) ==
  /\ parserCall = NoParserCall
  /\ Cardinality({i \in DOMAIN content : content[i] = "FO"}) <= 1
  /\ parserCall' = [fn |-> "Sidebar", content |-> content]
  /\ parserOut' = processMessageContent(content)
  /\ UNCHANGED exceptParser

(* ------------------------- LLMWithTools.chat --------------------------- *)
\* chat(messages) up to `await this.llmProvider.sendMessage`
LwtChat ==
  /\ lwtPc = "idle"
  /\ lwtPc' = "llm"
  /\ UNCHANGED <<lwtCalls, exceptLwt>>

\* sendMessage answers with the tool calls `blocks`: Promise.all over
\* toolCalls.map(async ...) starts every async function, and each runs to
\* its first await, client.listTools() in validateAndCallTool
LwtModelReturns(blocks) ==
  /\ lwtPc = "llm"
  /\ lwtCalls' = [k \in DOMAIN blocks |->
                    [name |-> blocks[k].name, args |-> blocks[k].args,
                     at |-> "listTools", status |-> "none", result |-> "none"]]
  /\ lwtPc' = IF blocks = <<>> THEN "returned" ELSE "tools"
  /\ UNCHANGED exceptLwt

\* sendMessage throws: chat has no try around it
LwtModelThrows ==
  /\ lwtPc = "llm"
  /\ lwtPc' = "failed"
  /\ UNCHANGED <<lwtCalls, exceptLwt>>

\* Promise.all resolves, and chat returns, when the last async function
\* has returned
LwtJoin(calls) ==
  IF \A k \in DOMAIN calls : calls[k].at = "done" THEN "returned" ELSE "tools"

LwtFinish(k, status, result) ==
  LET calls == [lwtCalls EXCEPT ![k] = [@ EXCEPT !.at = "done", !.status = status,
                                                 !.result = result]]
  IN /\ lwtCalls' = calls
     /\ lwtPc' = LwtJoin(calls)

\* client.listTools() of call k answers: the tool is looked up, the
\* arguments are validated, and client.callTool is invoked
LwtListToolsReturns(k) ==
  /\ lwtPc = "tools"
  /\ lwtCalls[k].at = "listTools"
  /\ LET v == Validate(lwtCalls[k].name, lwtCalls[k].args)
     IN IF v = "call"
        THEN /\ lwtCalls' = [lwtCalls EXCEPT ![k] = [@ EXCEPT !.at = "callTool"]]
             /\ UNCHANGED lwtPc
        ELSE LwtFinish(k, "error", v)
  /\ UNCHANGED exceptLwt

\* client.listTools() of call k throws
LwtListToolsThrows(k) ==
  /\ lwtPc = "tools"
  /\ lwtCalls[k].at = "listTools"
  /\ LwtFinish(k, "error", "listToolsError")
  /\ UNCHANGED exceptLwt

\* client.callTool of call k answers, with isError or without
LwtCallToolReturns(k, outcome) ==
  /\ lwtPc = "tools"
  /\ lwtCalls[k].at = "callTool"
  /\ LwtFinish(k, "success", outcome)
  /\ UNCHANGED exceptLwt

\* client.callTool of call k throws
LwtCallToolThrows(k) ==
  /\ lwtPc = "tools"
  /\ lwtCalls[k].at = "callTool"
  /\ LwtFinish(k, "error", "toolError")
  /\ UNCHANGED exceptLwt

(* ------------------------- server ids ---------------------------------- *)
\* A string is modelled by the sequence of its pieces: "mcp-" and
\* "server-" are what the regular expression /^(mcp-)?server-/ looks for,
\* the other pieces are spellings of names.
Pieces == {"mcp-", "server-", "Server-", "foo", "FOO", "bar"}

\* String.prototype.toLowerCase
LowerPiece(c) ==
  CASE c = "Server-" -> "server-"
    [] c = "FOO" -> "foo"
    [] OTHER -> c
ToLowerCase(x) == [k \in DOMAIN x |-> LowerPiece(x[k])]

\* x.replace(/^(mcp-)?server-/, '')
StripPrefix(x) ==
  IF Len(x) >= 2 /\ x[1] = "mcp-" /\ x[2] = "server-" THEN SubSeq(x, 3, Len(x))
  ELSE IF Len(x) >= 1 /\ x[1] = "server-" THEN Tail(x)
  ELSE x

\* mcpService.ts normalizeServerId; disconnectFromServer and
\* getToolsForServer compute their normalizedId the same way
normalizeServerId(id) == ToLowerCase(StripPrefix(id))

\* normalizedId of connectToServer
ConnectNormalizedId(serverId) == StripPrefix(ToLowerCase(serverId))

\* the server paths that are connected: npm packages, unscoped or scoped
Foo == [scoped |-> FALSE, name |-> <<"server-", "foo">>]
Bar == [scoped |-> TRUE, name |-> <<"mcp-", "server-", "bar">>]
Paths == {Foo, Bar}

\* MCPClient.extractServerId, for a scoped package and for a plain name
extractServerId(path) == IF path.scoped THEN StripPrefix(path.name) ELSE path.name

\* what listTools answers for the server at a path
ToolsOf(path) == IF path = Bar THEN <<"search">> ELSE <<"calculate">>

\* the ids a caller asks about
Ids == {<<"foo">>, <<"FOO">>, <<"server-", "foo">>, <<"mcp-", "server-", "foo">>,
        <<"Server-", "FOO">>, <<"bar">>}

\* the ids a caller disconnects
DisconnectIds == {<<"foo">>, <<"server-", "foo">>, <<"bar">>}

\* the servers whose id normalizes to the same value as id
ServersOf(id) ==
  {path \in Paths : normalizeServerId(extractServerId(path)) = normalizeServerId(id)}

NoRegReply == [op |-> "none", id |-> <<>>, ok |-> FALSE, found |-> FALSE]

(* ------------------- MCPClient: the connection registry ---------------- *)
\* connectedServers.get(id) || false
Connected(m, id) == \E k \in DOMAIN m : m[k].id = id /\ m[k].on

\* connectedServers.set(id, on): an existing key keeps its place
SetConnected(m, id, on) ==
  IF \E k \in DOMAIN m : m[k].id = id
  THEN [k \in DOMAIN m |-> IF m[k].id = id THEN [id |-> id, on |-> on] ELSE m[k]]
  ELSE Append(m, [id |-> id, on |-> on])

\* MCPClient.isConnected
isConnected(serverId) ==
  LET normalizedId == StripPrefix(serverId)
  IN \/ Connected(connectedServers, serverId)
     \/ Connected(connectedServers, normalizedId)
     \/ /\ \A k \in DOMAIN serverId : serverId[k] # "server-"
        /\ Connected(connectedServers, <<"server-">> \o normalizedId)

\* MCPClient.getToolsForServer
getToolsForServer(serverId) ==
  LET normalizedId == normalizeServerId(serverId)
  IN IF MapHas(serverTools, serverId) THEN MapGet(serverTools, serverId)
     ELSE IF MapHas(serverTools, normalizedId) THEN MapGet(serverTools, normalizedId)
     ELSE <<>>

RECURSIVE Pow2(_)
\* Math.pow(2, n) for a counter n
Pow2(n) == IF n <= 0 THEN 1 ELSE 2 * Pow2(n - 1)

\* reconnectAttempts.get(id) || 0
Attempts(id) == IF MapHas(reconnectAttempts, id) THEN MapGet(reconnectAttempts, id) ELSE 0

\* connectToServer(path) from its start to `await this.mcp.connect`:
\* nothing to do when the server is marked connected, otherwise the
\* attempt counter is set to 0 and the connection is started.
\* isRetry: the call comes from the retry timer. Attempts in flight are
\* told apart by their path and the await they are at.
ConnectToServer(path, isRetry) ==
  LET serverId == extractServerId(path)
      normalizedId == ConnectNormalizedId(serverId)
  IN /\ [path |-> path, at |-> "connect"] \notin connecting
     /\ retriesScheduled' =
          IF isRetry THEN retriesScheduled ELSE [retriesScheduled EXCEPT ![path] = 0]
     /\ regReply' = NoRegReply
     /\ abandoned' = IF isRetry THEN abandoned ELSE abandoned \ {path}
     /\ told' = IF isRetry THEN told ELSE told \ {path}
     /\ IF Connected(connectedServers, normalizedId) \/ Connected(connectedServers, serverId)
        THEN UNCHANGED <<reconnectAttempts, connecting, explicit>>
        ELSE /\ reconnectAttempts' = MapSet(reconnectAttempts, normalizedId, 0)
             /\ connecting' = connecting \cup {[path |-> path, at |-> "connect"]}
             /\ explicit' = IF isRetry THEN explicit
                             ELSE explicit \cup {[path |-> path, at |-> "connect"]}
     /\ UNCHANGED <<connectedServers, serverTools, tools, lastDelay>>

\* POST /api/servers/connect: mcpClient.connectToServer(actualServerPath)
ConnectRequest(path) ==
  /\ ConnectToServer(path, FALSE)
  /\ UNCHANGED retryTimers
  /\ UNCHANGED exceptReg

\* the retry timer of a failed attempt fires
RetryFires(timer) ==
  /\ timer \in retryTimers
  /\ retryTimers' = retryTimers \ {timer}
  /\ ConnectToServer(timer.path, TRUE)
  /\ UNCHANGED exceptReg

\* `await this.mcp.connect(this.transport)` of attempt c answers
McpConnectReturns(c) ==
  /\ c \in connecting /\ c.at = "connect"
  /\ [c EXCEPT !.at = "listTools"] \notin connecting
  /\ connecting' = (connecting \ {c}) \cup {[c EXCEPT !.at = "listTools"]}
  /\ explicit' = IF c \in explicit
                  THEN (explicit \ {c}) \cup {[c EXCEPT !.at = "listTools"]}
                  ELSE explicit
  /\ regReply' = NoRegReply
  /\ UNCHANGED <<connectedServers, serverTools, tools, reconnectAttempts, retryTimers,
                 retriesScheduled, abandoned, told, lastDelay>>
  /\ UNCHANGED exceptReg

\* `await this.mcp.listTools()` of attempt c answers: the aggregate list
\* becomes the list of this server, which is marked connected and has its
\* tools stored, under the normalized and under the extracted id
ListToolsReturns(c) ==
  LET serverId == extractServerId(c.path)
      normalizedId == ConnectNormalizedId(serverId)
  IN /\ c \in connecting /\ c.at = "listTools"
     /\ connecting' = connecting \ {c}
     /\ tools' = ToolsOf(c.path)
     /\ connectedServers' =
          SetConnected(SetConnected(connectedServers, normalizedId, TRUE), serverId, TRUE)
     /\ serverTools' =
          MapSet(MapSet(serverTools, normalizedId, ToolsOf(c.path)), serverId, ToolsOf(c.path))
     /\ regReply' = NoRegReply
     /\ explicit' = explicit \ {c}
     /\ UNCHANGED <<reconnectAttempts, retryTimers, retriesScheduled, abandoned, told,
                    lastDelay>>
     /\ UNCHANGED exceptReg

\* mcp.connect or mcp.listTools of attempt c throws: `catch (error)`
\* schedules a retry while the counter is below maxReconnectAttempts, and
\* rethrows
ConnectThrows(c) ==
  LET serverId == extractServerId(c.path)
      normalizedId == ConnectNormalizedId(serverId)
      attempts == Attempts(normalizedId)
  IN /\ c \in connecting
     /\ [path |-> c.path] \notin retryTimers
     /\ connecting' = connecting \ {c}
     /\ IF attempts < maxReconnectAttempts
        THEN /\ retriesScheduled[c.path] < MaxRetriesSeen
             /\ reconnectAttempts' = MapSet(reconnectAttempts, normalizedId, attempts + 1)
             /\ retryTimers' = retryTimers \cup {[path |-> c.path]}
             /\ retriesScheduled' = [retriesScheduled EXCEPT ![c.path] = @ + 1]
             /\ lastDelay' = [lastDelay EXCEPT ![c.path] = reconnectDelay * Pow2(attempts)]
        ELSE /\ reconnectAttempts' = MapDelete(reconnectAttempts, normalizedId)
             /\ UNCHANGED <<retryTimers, retriesScheduled, lastDelay>>
     /\ regReply' = NoRegReply
     \* `throw error`: the caller that awaits this attempt sees it reject
     /\ explicit' = explicit \ {c}
     /\ told' = IF /\ c \in explicit
                   /\ \A d \in connecting : d.path = c.path => d = c
                   /\ ~Connected(connectedServers, normalizedId)
                   /\ ~Connected(connectedServers, serverId)
                THEN told \cup {c.path} ELSE told
     /\ UNCHANGED <<connectedServers, serverTools, tools, abandoned>>
     /\ UNCHANGED exceptReg

RECURSIVE RebuildTools(_, _)
\* this.connectedServers.forEach(...): the stored tools of every entry
\* that is marked connected, pushed in the order of the entries
RebuildTools(m, st) ==
  IF m = <<>> THEN <<>>
  ELSE (IF Head(m).on /\ MapHas(st, Head(m).id) THEN MapGet(st, Head(m).id) ELSE <<>>)
       \o RebuildTools(Tail(m), st)

\* MCPClient.disconnectFromServer(serverId)
DisconnectFromServer(serverId) ==
  LET normalizedId == normalizeServerId(serverId)
      directlyConnected ==
        Connected(connectedServers, serverId) \/ Connected(connectedServers, normalizedId)
      flags == SetConnected(SetConnected(connectedServers, serverId, FALSE),
                            normalizedId, FALSE)
      stored == MapDelete(MapDelete(serverTools, serverId), normalizedId)
  IN /\ regReply' = [op |-> "disconnect", id |-> serverId, ok |-> TRUE,
                     found |-> directlyConnected]
     /\ IF ~directlyConnected
        THEN UNCHANGED <<connectedServers, serverTools, tools>>
        ELSE /\ connectedServers' = flags
             /\ serverTools' = stored
             /\ tools' = RebuildTools(flags, stored)
     /\ abandoned' = abandoned \cup
          {path \in ServersOf(serverId) :
             /\ [path |-> path] \in retryTimers
             /\ \A c \in connecting : c.path # path}
     /\ UNCHANGED <<reconnectAttempts, connecting, retryTimers, retriesScheduled,
                    explicit, told, lastDelay>>
     /\ UNCHANGED exceptReg

(* ----------------------- id normalization ------------------------------ *)
NoCall == [fn |-> "none", arg |-> <<>>]

\* the two normalizations of the sources
Normalizers == {"normalizeServerId", "connectToServer"}
Normalize(fn, x) ==
  IF fn = "normalizeServerId" THEN normalizeServerId(x) ELSE ConnectNormalizedId(x)

\* fn(x)
NormalizeCall(fn, x) ==
  /\ normCall = NoCall
  /\ normCall' = [fn |-> fn, arg |-> x]
  /\ normResults' = <<Normalize(fn, x)>>
  /\ UNCHANGED exceptNorm

\* fn(fn(x))
NormalizeAgain ==
  /\ Len(normResults) = 1
  /\ normResults' = Append(normResults, Normalize(normCall.fn, normResults[1]))
  /\ UNCHANGED normCall
  /\ UNCHANGED exceptNorm

(* ---------------------- MCPConnectionManager --------------------------- *)
\* the ids the manager is used with
MgrIds == {<<"foo">>, <<"bar">>}

\* The Client objects, numbered in the order of their creation; 0 stands
\* for none. mgrClients follows them: the number of the next one, the
\* client stored in `connections` under an id, the client a pending
\* connect or close of an id is about, the clients a pending disconnectAll
\* closes, and the clients that are connected and not closed.
NoClients ==
  [next |-> 1, of |-> [id \in MgrIds |-> 0], connecting |-> [id \in MgrIds |-> 0],
   closing |-> [id \in MgrIds |-> 0], active |-> FALSE, all |-> {}, open |-> {}]

\* connectToServer(id, command, args) up to `await client.connect`
MgrConnectToServer(id) ==
  /\ [op |-> "connect", id |-> id] \notin mgrPending
  /\ mgrClients.next <= MaxClients
  /\ transportMap' = transportMap \cup {id}
  /\ mgrPending' = mgrPending \cup {[op |-> "connect", id |-> id]}
  /\ mgrClients' = [mgrClients EXCEPT !.connecting[id] = mgrClients.next,
                                      !.next = @ + 1]
  /\ mgrReply' = NoRegReply
  /\ UNCHANGED connections
  /\ UNCHANGED exceptMgr

\* client.connect answers: the connection is stored
MgrConnectReturns(id) ==
  /\ [op |-> "connect", id |-> id] \in mgrPending
  /\ mgrPending' = mgrPending \ {[op |-> "connect", id |-> id]}
  /\ connections' = connections \cup {id}
  /\ mgrClients' = [mgrClients EXCEPT !.of[id] = mgrClients.connecting[id],
                                      !.open = @ \cup {mgrClients.connecting[id]},
                                      !.connecting[id] = 0]
  /\ mgrReply' = NoRegReply
  /\ UNCHANGED transportMap
  /\ UNCHANGED exceptMgr

\* client.connect throws: connectToServer rejects
MgrConnectThrows(id) ==
  /\ [op |-> "connect", id |-> id] \in mgrPending
  /\ mgrPending' = mgrPending \ {[op |-> "connect", id |-> id]}
  /\ mgrClients' = [mgrClients EXCEPT !.connecting[id] = 0]
  /\ mgrReply' = NoRegReply
  /\ UNCHANGED <<connections, transportMap>>
  /\ UNCHANGED exceptMgr

\* MCPConnectionManager.disconnectFromServer(id) up to its return, or to
\* `await client.close()`
MgrDisconnectFromServer(id) ==
  /\ [op |-> "close", id |-> id] \notin mgrPending
  /\ IF id \notin connections
     THEN /\ mgrReply' = [op |-> "disconnect", id |-> id, ok |-> FALSE, found |-> FALSE]
          /\ UNCHANGED <<mgrPending, mgrClients>>
     ELSE /\ mgrPending' = mgrPending \cup {[op |-> "close", id |-> id]}
          /\ mgrClients' = [mgrClients EXCEPT !.closing[id] = mgrClients.of[id]]
          /\ mgrReply' = NoRegReply
  /\ UNCHANGED <<connections, transportMap>>
  /\ UNCHANGED exceptMgr

\* client.close() answers: both entries are deleted, true is returned
MgrCloseReturns(id) ==
  /\ [op |-> "close", id |-> id] \in mgrPending
  /\ mgrPending' = mgrPending \ {[op |-> "close", id |-> id]}
  /\ connections' = connections \ {id}
  /\ transportMap' = transportMap \ {id}
  /\ mgrClients' = [mgrClients EXCEPT !.open = @ \ {mgrClients.closing[id]},
                                      !.of[id] = 0,
                                      !.closing[id] = 0]
  /\ mgrReply' = [op |-> "disconnect", id |-> id, ok |-> TRUE, found |-> TRUE]
  /\ UNCHANGED exceptMgr

\* client.close() throws: false is returned
MgrCloseThrows(id) ==
  /\ [op |-> "close", id |-> id] \in mgrPending
  /\ mgrPending' = mgrPending \ {[op |-> "close", id |-> id]}
  /\ mgrClients' = [mgrClients EXCEPT !.closing[id] = 0]
  /\ mgrReply' = [op |-> "disconnect", id |-> id, ok |-> FALSE, found |-> TRUE]
  /\ UNCHANGED <<connections, transportMap>>
  /\ UNCHANGED exceptMgr

\* disconnectAll() up to `await Promise.all(disconnections)`: close() is
\* called on every client that `connections` holds now
MgrDisconnectAll ==
  /\ ~mgrClients.active
  /\ mgrClients' = [mgrClients EXCEPT !.active = TRUE,
                                      !.all = {mgrClients.of[id] : id \in connections}]
  /\ mgrReply' = NoRegReply
  /\ UNCHANGED <<connections, transportMap, mgrPending>>
  /\ UNCHANGED exceptMgr

\* every close() has answered, those of the clients in `failed` by
\* throwing (which is caught and logged): both Maps are cleared
MgrDisconnectAllReturns(failed) ==
  /\ mgrClients.active
  /\ failed \subseteq mgrClients.all
  /\ connections' = {}
  /\ transportMap' = {}
  /\ mgrClients' = [mgrClients EXCEPT !.active = FALSE, !.all = {},
                                      !.open = @ \ (mgrClients.all \ failed),
                                      !.of = [id \in MgrIds |-> 0]]
  /\ mgrReply' = [op |-> "disconnectAll", id |-> <<>>, ok |-> failed = {}, found |-> TRUE]
  /\ UNCHANGED mgrPending
  /\ UNCHANGED exceptMgr

(* ------------- processLLMResponse (conversation manager) -------------- *)
PlrIterateAsks(k, calls, msgs, requireApproval) ==
  /\ plrCalls' = calls
  /\ plrMessages' = msgs
  /\ UNCHANGED plrFollowUps
  /\ plrPc' =
       IF k <= Len(calls) THEN "approval"
       ELSE IF \E j \in DOMAIN calls : calls[j].status \in {"success", "error"}
            THEN "listTools"
            ELSE "returned"
  /\ plrResponse' = IF plrPc' = "returned" THEN "llmResponse" ELSE plrResponse

\* The loop `for (const toolCall of toolCalls)` from the top of iteration k
\* to its next await, or, past the last call, the code after the loop up
\* to its await or return. calls and msgs are the calls and the messages
\* array as the code before left them.
PlrIterate(k, calls, msgs, requireApproval) ==
  /\ plrCalls' = calls
  /\ plrMessages' = msgs
  /\ UNCHANGED plrFollowUps
  /\ plrPc' =
       IF k <= Len(calls)
       THEN (IF requireApproval THEN "approval" ELSE "tool")
       ELSE IF \E j \in DOMAIN calls : calls[j].status \in {"success", "error"}
            THEN "listTools"      \* toolResults.length > 0
            ELSE "returned"
  /\ plrResponse' = IF plrPc' = "returned" THEN "llmResponse" ELSE plrResponse

\* the call the loop is at
PlrAt == CHOOSE k \in DOMAIN plrCalls : plrCalls[k].status = "pending"

PlrMark(calls, k, status) == [calls EXCEPT ![k] = [@ EXCEPT !.status = status]]

\* processLLMResponse(mcpClient, llmProvider, llmResponse, messages,
\* requireApproval) with the tool calls `blocks` extracted from llmResponse
PlrStart(blocks, requireApproval) ==
  /\ plrPc = "idle"
  /\ IF blocks = <<>>
     THEN /\ plrPc' = "returned"
          /\ plrResponse' = "llmResponse"
          /\ UNCHANGED <<plrCalls, plrMessages, plrFollowUps>>
     ELSE PlrIterate(1,
                     [k \in DOMAIN blocks |->
                        [name |-> blocks[k].name, args |-> blocks[k].args,
                         status |-> IF k = 1 THEN "pending" ELSE "waiting",
                         requireApproval |-> requireApproval, isError |-> FALSE]],
                     plrMessages, requireApproval)
  /\ UNCHANGED exceptPlr

\* the next call becomes the one the loop is at
PlrAdvance(calls, k) ==
  IF k + 1 \in DOMAIN calls THEN PlrMark(calls, k + 1, "pending") ELSE calls

\* `await getUserApproval(name, args)` answers
PlrApproval(userApproved) ==
  /\ plrPc = "approval"
  /\ LET k == PlrAt IN
     IF userApproved
     THEN /\ plrPc' = "tool"
          /\ UNCHANGED <<plrCalls, plrMessages, plrFollowUps, plrResponse>>
     ELSE PlrIterate(k + 1,
                     PlrAdvance(PlrMark(plrCalls, k, "not_approved"), k),
                     Append(plrMessages, Msg("system", "notApproved", 0, k)),
                     plrCalls[k].requireApproval)
  /\ UNCHANGED exceptPlr

\* `await validateAndCallTool(mcpClient, name, args)` answers with the
\* result of the tool server, whose isError is true or false: the tool
\* call and its result are pushed
PlrToolReturns(isError) ==
  /\ plrPc = "tool"
  /\ LET k == PlrAt IN
     /\ Validate(plrCalls[k].name, plrCalls[k].args) = "call"
     /\ PlrIterate(k + 1,
                   PlrAdvance([PlrMark(plrCalls, k, "success") EXCEPT ![k].isError = isError],
                              k),
                   plrMessages \o <<Msg("assistant", "toolCall", 0, k),
                                    Msg("tool", "result", 0, k)>>,
                   plrCalls[k].requireApproval)
  /\ UNCHANGED exceptPlr

\* ... or throws (tool not found, invalid input, or an exception of the
\* tool server): the error is pushed
PlrToolThrows ==
  /\ plrPc = "tool"
  /\ LET k == PlrAt IN
     PlrIterate(k + 1,
                PlrAdvance(PlrMark(plrCalls, k, "error"), k),
                Append(plrMessages, Msg("tool", "error", 0, k)),
                plrCalls[k].requireApproval)
  /\ UNCHANGED exceptPlr

\* the calls whose outcome a conversation holds
OutcomesIn(msgs) ==
  {msgs[p].i : p \in {q \in DOMAIN msgs : msgs[q].kind \in {"result", "error", "notApproved"}}}

\* `await mcpClient.listTools()` after the loop answers, and the updated
\* conversation is sent to the model
PlrListToolsReturns ==
  /\ plrPc = "listTools"
  /\ plrPc' = "followup"
  /\ plrFollowUps' = plrFollowUps \cup {OutcomesIn(plrMessages)}
  /\ UNCHANGED <<plrCalls, plrMessages, plrResponse>>
  /\ UNCHANGED exceptPlr

\* `await llmProvider.sendMessage(messages, ...)` answers
PlrFollowUpReturns ==
  /\ plrPc = "followup"
  /\ plrPc' = "returned"
  /\ plrResponse' = "newResponse"
  /\ UNCHANGED <<plrCalls, plrMessages, plrFollowUps>>
  /\ UNCHANGED exceptPlr

\* listTools or sendMessage throws: nothing catches it
PlrThrows ==
  /\ plrPc \in {"listTools", "followup"}
  /\ plrPc' = "failed"
  /\ UNCHANGED <<plrCalls, plrMessages, plrFollowUps, plrResponse>>
  /\ UNCHANGED exceptPlr

(* ------------------- agentFlow.performComplexTask --------------------- *)
NoneSent == [rounds |-> 0, summaries |-> 0]

\* options.maxIterations: a number, which 0 stands for when the option is
\* missing (undefined and 0 are both falsy)
MaxIterationsOptions == 0..MaxIterationsOption

\* a || b on numbers
Or(a, b) == IF a = 0 THEN b ELSE a

\* the code from `if (iterations >= maxIterations)` on: the summary is
\* asked for, or the result is returned
PctAfterLoop(iter, msgs, broke) ==
  /\ iterations' = iter
  /\ pctBroke' = broke
  /\ pctToolsLeft' = 0
  /\ IF iter >= maxIterations'
     THEN /\ pctMessages' = msgs + 1
          /\ pctSent' = [pctSent EXCEPT !.summaries = @ + 1]
          /\ pctPc' = "summary"
          /\ UNCHANGED completed
     ELSE /\ pctMessages' = msgs
          /\ pctPc' = "returned"
          /\ completed' = (iter < maxIterations')
          /\ UNCHANGED pctSent

\* the head of `while (iterations < maxIterations)` with the messages msgs
PctLoop(msgs) ==
  IF iterations < maxIterations'
  THEN /\ iterations' = iterations + 1
       /\ pctMessages' = msgs
       /\ pctSent' = [pctSent EXCEPT !.rounds = @ + 1]
       /\ pctPc' = "round"
       /\ pctToolsLeft' = 0
       /\ UNCHANGED <<pctBroke, completed>>
  ELSE PctAfterLoop(iterations, msgs, FALSE)

\* performComplexTask(mcpClient, llmClient, task, options) up to
\* `await prepareToolsForLLM(mcpClient)`
PerformComplexTask(option) ==
  /\ pctPc = "idle"
  /\ pctPc' = "prepare"
  /\ maxIterations' = Or(option, DefaultMaxIterations)
  /\ UNCHANGED <<iterations, pctMessages, pctToolsLeft, pctSent, pctBroke, completed>>
  /\ UNCHANGED exceptPct

\* prepareToolsForLLM resolves (it catches the errors of listTools); the
\* task message is built and the loop is entered
PctToolsPrepared ==
  /\ pctPc = "prepare"
  /\ UNCHANGED maxIterations
  /\ PctLoop(1)
  /\ UNCHANGED exceptPct

\* llmClient.sendMessage of the loop resolves with n tool calls
PctResponse(n) ==
  /\ pctPc = "round"
  /\ UNCHANGED maxIterations
  /\ IF n > 0
     THEN \* processLLMResponse pushes the assistant message and calls the
          \* first tool
          /\ pctMessages' = pctMessages + 1
          /\ pctToolsLeft' = n
          /\ pctPc' = "tool"
          /\ UNCHANGED <<iterations, pctSent, pctBroke, completed>>
     ELSE \* the assistant message is pushed; break
          PctAfterLoop(iterations, pctMessages + 1, TRUE)
  /\ UNCHANGED exceptPct

\* mcpClient.callTool resolves or rejects: either way one user message is
\* pushed, and the next tool is called or the loop goes on
PctCallToolSettles ==
  /\ pctPc = "tool"
  /\ UNCHANGED maxIterations
  /\ IF pctToolsLeft > 1
     THEN /\ pctToolsLeft' = pctToolsLeft - 1
          /\ pctMessages' = pctMessages + 1
          /\ UNCHANGED <<pctPc, iterations, pctSent, pctBroke, completed>>
     ELSE PctLoop(pctMessages + 1)
  /\ UNCHANGED exceptPct

\* llmClient.sendMessage for the final summary resolves
PctSummaryReturns ==
  /\ pctPc = "summary"
  /\ pctPc' = "returned"
  /\ pctMessages' = pctMessages + 1
  /\ completed' = (iterations < maxIterations)
  /\ UNCHANGED <<maxIterations, iterations, pctToolsLeft, pctSent, pctBroke>>
  /\ UNCHANGED exceptPct

\* llmClient.sendMessage rejects: performComplexTask rejects
PctSendMessageRejects ==
  /\ pctPc \in {"round", "summary"}
  /\ pctPc' = "failed"
  /\ UNCHANGED <<maxIterations, iterations, pctMessages, pctToolsLeft, pctSent,
                 pctBroke, completed>>
  /\ UNCHANGED exceptPct

(* ------------- server.ts: POST /api/servers/connect by path ------------ *)
\* A server path is modelled by what the handler looks at: whether it
\* holds a '/', its name, and its ending.
ServerNames == {"a"}
Endings == {"", ".js", ".py", ".txt"}
ServerPaths == [dir : BOOLEAN, name : ServerNames, ext : Endings]

\* server.ts extractServerId for a path that does not start with '@':
\* the file name without its ending for a script, else the raw input
extractServerIdOfPath(serverPath) ==
  IF serverPath.ext \in {".js", ".py"}
  THEN [dir |-> FALSE, name |-> serverPath.name, ext |-> ""]
  ELSE serverPath

\* `!mcpConfig.mcpServers[actualServerId]` and the choice of serverConfig:
\* "npx", "node", "python", or none (the handler answers 400)
CommandFor(serverPath) ==
  IF ~serverPath.dir THEN "npx"
  ELSE IF serverPath.ext = ".js" THEN "node"
  ELSE IF serverPath.ext = ".py" THEN "python"
  ELSE "none"

NoSrvReply == [status |-> 0, id |-> [dir |-> FALSE, name |-> "a", ext |-> ""],
               isNewServer |-> FALSE, wasSaved |-> FALSE]

\* POST /api/servers/connect {serverPath} up to
\* `await mcpClient.connectToServer(actualServerPath)`; writes: whether
\* fs.writeFileSync of saveConfig succeeds
ServersConnect(serverPath, writes) ==
  LET actualServerId == extractServerIdOfPath(serverPath)
      isNewServer == actualServerId \notin mcpConfig
      wasSaved == actualServerId \in configFile
      reply(status) == [status |-> status, id |-> actualServerId,
                        isNewServer |-> isNewServer, wasSaved |-> wasSaved]
  IN /\ \A q \in srvConnecting : q.path # serverPath
     /\ IF isNewServer /\ CommandFor(serverPath) = "none"
        THEN /\ srvReply' = reply(400)
             /\ UNCHANGED <<mcpConfig, configFile, srvConnecting>>
        ELSE /\ mcpConfig' = mcpConfig \cup {actualServerId}
             \* saveConfig writes the whole of mcpConfig
             /\ configFile' = IF isNewServer /\ writes THEN mcpConfig' ELSE configFile
             /\ IF actualServerId \in srvConnected
                THEN /\ srvReply' = reply(200)
                     /\ UNCHANGED srvConnecting
                ELSE /\ srvReply' = NoSrvReply
                     /\ srvConnecting' = srvConnecting \cup
                          {[path |-> serverPath, isNewServer |-> isNewServer,
                            wasSaved |-> wasSaved]}
     /\ UNCHANGED srvConnected
     /\ UNCHANGED exceptSrv

\* connectToServer resolves: res.json({success: true, ...})
ServersConnectReturns(q) ==
  /\ q \in srvConnecting
  /\ srvConnecting' = srvConnecting \ {q}
  /\ srvConnected' = srvConnected \cup {extractServerIdOfPath(q.path)}
  /\ srvReply' = [status |-> 200, id |-> extractServerIdOfPath(q.path),
                  isNewServer |-> q.isNewServer, wasSaved |-> q.wasSaved]
  /\ UNCHANGED <<mcpConfig, configFile>>
  /\ UNCHANGED exceptSrv

\* connectToServer rejects: `catch (error)` answers 500
ServersConnectThrows(q) ==
  /\ q \in srvConnecting
  /\ srvConnecting' = srvConnecting \ {q}
  /\ srvReply' = [status |-> 500, id |-> extractServerIdOfPath(q.path),
                  isNewServer |-> q.isNewServer, wasSaved |-> q.wasSaved]
  /\ UNCHANGED <<mcpConfig, configFile, srvConnected>>
  /\ UNCHANGED exceptSrv

Init ==
  /\ approvalCallback = "null"
  /\ pendingApprovals = {}
  /\ approvals = <<>>
  /\ now = 0
  /\ conversationHistory = <<>>
  /\ pc = [s \in Sessions |-> "idle"]
  /\ toolCalls = [s \in Sessions |-> <<>>]
  /\ messages = [s \in Sessions |-> <<>>]
  /\ callToolLog = {}
  /\ approveReply = NoReply
  /\ lwtPc = "idle"
  /\ lwtCalls = <<>>
  /\ plrPc = "idle"
  /\ plrCalls = <<>>
  /\ plrMessages = <<>>
  /\ plrFollowUps = {}
  /\ plrResponse = "none"
  /\ connectedServers = <<>>
  /\ serverTools = {}
  /\ tools = <<>>
  /\ reconnectAttempts = {}
  /\ connecting = {}
  /\ retryTimers = {}
  /\ retriesScheduled = [p \in Paths |-> 0]
  /\ regReply = NoRegReply
  /\ abandoned = {}
  /\ explicit = {}
  /\ lastDelay = [path \in Paths |-> 0]
  /\ told = {}
  /\ normCall = NoCall
  /\ normResults = <<>>
  /\ connections = {}
  /\ transportMap = {}
  /\ mgrPending = {}
  /\ mgrReply = NoRegReply
  /\ mgrClients = NoClients
  /\ vctPc = "idle"
  /\ vctCall = NoVctCall
  /\ vctOutcome = NoOutcome
  /\ parserCall = NoParserCall
  /\ parserOut = NoParserOut
  /\ pctPc = "idle"
  /\ maxIterations = 0
  /\ iterations = 0
  /\ pctMessages = 0
  /\ pctToolsLeft = 0
  /\ pctSent = NoneSent
  /\ pctBroke = FALSE
  /\ completed = FALSE
  /\ mcpConfig = {}
  /\ configFile = {}
  /\ srvConnecting = {}
  /\ srvConnected = {}
  /\ srvReply = NoSrvReply

\* the chat request of Spec
Solo == {1}

Next ==
  \/ \E s \in Solo : ChatStart(s)
  \/ \E s \in Solo, blk \in ToolUse \cup {NoBlock} : ModelReturns(s, blk)
  \/ \E s \in Solo : ModelThrows(s)
  \/ \E s \in Solo : ToolReturns(s)
  \/ \E s \in Solo : ToolThrows(s)
  \/ \E s \in Solo, blk \in ToolUse \cup {NoBlock} : FollowUpReturns(s, blk)
  \/ \E s \in Solo : FollowUpThrows(s)
  \/ \E s \in Solo, blk \in ToolUse \cup {NoBlock} : NoteFollowUpReturns(s, blk)
  \/ \E s \in Solo : NoteFollowUpThrows(s)
  \/ \E h \in ApprovedValues : SetApprovalCallback(h)
  \/ \E id \in PostableIds : ApproveToolNotFound(id)
  \/ \E id \in PostableIds, a \in ApprovedValues : ApproveTool(id, a)
  \/ \E r \in DOMAIN approvals : TimerFires(r)
  \/ Tick

Spec == Init /\ [][Next]_vars

\* the event loop: time passes and a timer that is due fires
LiveSpec ==
  /\ Spec
  /\ WF_vars(Tick)
  /\ \A r \in 1..MaxBlocks : WF_vars(r \in DOMAIN approvals /\ TimerFires(r))

(* ------------------- overlapping chat requests ------------------------- *)
\* the chat and reset handlers of server.ts with the default approval
\* (auto-approve), for requests that overlap
ChatNext ==
  \/ \E s \in Sessions : ChatStart(s)
  \/ \E s \in Sessions, blk \in ToolUse \cup {NoBlock} : ModelReturns(s, blk)
  \/ \E s \in Sessions : ModelThrows(s)
  \/ \E s \in Sessions : ToolReturns(s)
  \/ \E s \in Sessions : ToolThrows(s)
  \/ \E s \in Sessions, blk \in ToolUse \cup {NoBlock} : FollowUpReturns(s, blk)
  \/ \E s \in Sessions : FollowUpThrows(s)
  \/ \E s \in Sessions, blk \in ToolUse \cup {NoBlock} : NoteFollowUpReturns(s, blk)
  \/ \E s \in Sessions : NoteFollowUpThrows(s)
  \/ ResetConversation

ChatSpec == Init /\ [][ChatNext]_vars

(* ------------- overlapping chat requests under approval ---------------- *)
\* the chat and approval handlers of server.ts for requests that overlap
\* within one value of Date.now(), before any timer is due
ApprNext ==
  \/ \E s \in Sessions : ChatStart(s)
  \/ \E s \in Sessions, blk \in ToolUse \cup {NoBlock} : ModelReturns(s, blk)
  \/ \E s \in Sessions : ModelThrows(s)
  \/ \E s \in Sessions : ToolReturns(s)
  \/ \E s \in Sessions : ToolThrows(s)
  \/ \E s \in Sessions, blk \in ToolUse \cup {NoBlock} : FollowUpReturns(s, blk)
  \/ \E s \in Sessions : FollowUpThrows(s)
  \/ \E s \in Sessions, blk \in ToolUse \cup {NoBlock} : NoteFollowUpReturns(s, blk)
  \/ \E s \in Sessions : NoteFollowUpThrows(s)
  \/ \E h \in ApprovedValues : SetApprovalCallback(h)
  \/ \E id \in PostableIds : ApproveToolNotFound(id)
  \/ \E id \in PostableIds, a \in ApprovedValues : ApproveTool(id, a)

ApprSpec == Init /\ [][ApprNext]_vars

(* --------------------------- LLMWithTools ------------------------------ *)
LwtNext ==
  \/ LwtChat
  \/ \E blocks \in SeqsUpTo(ToolUse, MaxBlocks) : LwtModelReturns(blocks)
  \/ LwtModelThrows
  \/ \E k \in DOMAIN lwtCalls : LwtListToolsReturns(k)
  \/ \E k \in DOMAIN lwtCalls : LwtListToolsThrows(k)
  \/ \E k \in DOMAIN lwtCalls, o \in {"ok", "isError"} : LwtCallToolReturns(k, o)
  \/ \E k \in DOMAIN lwtCalls : LwtCallToolThrows(k)

\* one call of LLMWithTools.chat
LwtSpec == Init /\ [][LwtNext]_vars

(* ----------------------- processLLMResponse ---------------------------- *)
PlrNext ==
  \/ \E blocks \in SeqsUpTo(ToolUse, MaxBlocks), ra \in BOOLEAN : PlrStart(blocks, ra)
  \/ \E a \in BOOLEAN : PlrApproval(a)
  \/ \E isError \in BOOLEAN : PlrToolReturns(isError)
  \/ PlrToolThrows
  \/ PlrListToolsReturns
  \/ PlrFollowUpReturns
  \/ PlrThrows

\* one call of processLLMResponse
PlrSpec == Init /\ [][PlrNext]_vars

(* ---------------------- connection registry ---------------------------- *)
RegNext ==
  \/ \E path \in Paths : ConnectRequest(path)
  \/ \E timer \in retryTimers : RetryFires(timer)
  \/ \E c \in connecting : McpConnectReturns(c)
  \/ \E c \in connecting : ListToolsReturns(c)
  \/ \E c \in connecting : ConnectThrows(c)
  \/ \E id \in DisconnectIds : DisconnectFromServer(id)

\* MCPClient as the registry of server connections
RegSpec == Init /\ [][RegNext]_vars

(* ----------------------- id normalization ------------------------------ *)
NormNext ==
  \/ \E fn \in Normalizers, x \in SeqsUpTo(Pieces, MaxLen) : NormalizeCall(fn, x)
  \/ NormalizeAgain

\* a normalization applied to a string, and again to its result
NormSpec == Init /\ [][NormNext]_vars

(* ---------------------- MCPConnectionManager --------------------------- *)
MgrNext ==
  \/ \E id \in MgrIds : MgrConnectToServer(id)
  \/ \E id \in MgrIds : MgrConnectReturns(id)
  \/ \E id \in MgrIds : MgrConnectThrows(id)
  \/ \E id \in MgrIds : MgrDisconnectFromServer(id)
  \/ \E id \in MgrIds : MgrCloseReturns(id)
  \/ \E id \in MgrIds : MgrCloseThrows(id)
  \/ MgrDisconnectAll
  \/ \E failed \in SUBSET (1..MaxClients) : MgrDisconnectAllReturns(failed)

MgrSpec == Init /\ [][MgrNext]_vars

(* ----------------------- validateAndCallTool -------------------------- *)
VctNext ==
  \/ \E schema \in Schemas, input \in Inputs : VctStart(schema, input)
  \/ \E found \in BOOLEAN : VctListToolsReturns(found)
  \/ VctCallToolReturns
  \/ VctCallToolThrows

\* calls of validateAndCallTool, one after the other
VctSpec == Init /\ [][VctNext]_vars

(* -------------------------- response parsers --------------------------- *)
ParserNext ==
  \/ \E content \in Contents : McpServiceSendMessage(content)
  \/ \E content \in Contents : ProcessMessageContent(content)

\* one model response, parsed by one of the two parsers of the UI
ParserSpec == Init /\ [][ParserNext]_vars

(* ------------------- agentFlow.performComplexTask --------------------- *)
PctNext ==
  \/ \E option \in MaxIterationsOptions : PerformComplexTask(option)
  \/ PctToolsPrepared
  \/ \E n \in 0..MaxToolCalls : PctResponse(n)
  \/ PctCallToolSettles
  \/ PctSummaryReturns
  \/ PctSendMessageRejects

\* one call of performComplexTask
PctSpec == Init /\ [][PctNext]_vars

(* ------------- server.ts: POST /api/servers/connect by path ------------ *)
SrvNext ==
  \/ \E serverPath \in ServerPaths, writes \in BOOLEAN : ServersConnect(serverPath, writes)
  \/ \E q \in srvConnecting : ServersConnectReturns(q)
  \/ \E q \in srvConnecting : ServersConnectThrows(q)

\* the server registry file under POST /api/servers/connect
SrvSpec == Init /\ [][SrvNext]_vars

(* ============================== claims ================================= *)
CallsOf(s) == DOMAIN toolCalls[s]
Terminal == {"success", "error", "not_approved"}

\* C1: a tool call that asked the UI for approval is handed to callTool
\* only if its request was resolved by a decision whose `approved` is the
\* boolean true; a request resolved by the timeout, or by any other
\* `approved` value, is never executed.
C1_ExecutedOnlyIfApproved ==
  \A r \in DOMAIN approvals :
    LET p == approvals[r] IN
    /\ <<p.session, p.call>> \in callToolLog => p.settled /\ p.value /\ p.by = "true"
    /\ p.settled /\ p.by # "true" => /\ ~p.value
                                     /\ <<p.session, p.call>> \notin callToolLog
                                     /\ toolCalls[p.session][p.call].status = "not_approved"

\* a call approved in the UI has been handed to the tool server, and
\* another decision, with the string "true", has not
C1_Witness ==
  /\ \E r \in DOMAIN approvals :
       approvals[r].by = "true" /\ <<approvals[r].session, approvals[r].call>> \in callToolLog
  /\ \E r \in DOMAIN approvals : approvals[r].by = "\"true\""

\* C2: a request that gets no decision is resolved in the end, by its
\* timer and with false; a decision posted after that does not change
\* what the caller got.
C2_TimeoutResolvesFalse ==
  /\ \A r \in 1..MaxBlocks :
       (r \in DOMAIN approvals) ~> (r \in DOMAIN approvals /\ approvals[r].settled)
  /\ [](\A r \in DOMAIN approvals :
          approvals[r].timerFired =>
            /\ approvals[r].settled
            /\ approvals[r].by = "timeout" =>
                 /\ ~approvals[r].value
                 /\ toolCalls[approvals[r].session][approvals[r].call].status
                      \in {"not_approved"}
                 /\ <<approvals[r].session, approvals[r].call>> \notin callToolLog)

\* a request timed out, and a decision approved = true for its id was
\* accepted afterwards
C2_Witness ==
  \E r \in DOMAIN approvals :
    /\ approvals[r].by = "timeout"
    /\ ~MapHas(pendingApprovals, approvals[r].id)
    /\ approveReply.status = 200
    /\ approveReply.priorResolved

\* C3: a promise is settled at most once and its continuation runs exactly
\* once when it is: the first of decision and timeout fixes the value, a
\* later resolve changes nothing.
C3_ResolvedOnce ==
  /\ [](\A r \in DOMAIN approvals :
          approvals[r].resumed = IF approvals[r].settled THEN 1 ELSE 0)
  /\ [][\A r \in DOMAIN approvals :
          approvals[r].settled =>
            /\ approvals'[r].settled
            /\ approvals'[r].value = approvals[r].value
            /\ approvals'[r].by = approvals[r].by
            /\ approvals'[r].resumed = approvals[r].resumed]_vars

\* the timer of a request fired after the request had been approved
C3_Witness ==
  \E r \in DOMAIN approvals :
    approvals[r].by = "true" /\ approvals[r].value /\ approvals[r].timerFired

\* C4: the pending table holds exactly the requests that were created and
\* are not resolved yet.
C4_TableIsUnresolved ==
  {e[2] : e \in pendingApprovals} = {r \in DOMAIN approvals : ~approvals[r].settled}

\* C5: a decision for an id whose requests are all resolved is answered as
\* a success and changes neither the table nor any request.
C5_LateDecisionIgnored ==
  [][approveReply'.handler = "approve-tool" /\ approveReply'.priorResolved =>
       /\ approveReply'.status = 200
       /\ pendingApprovals' = pendingApprovals
       /\ approvals' = approvals]_vars

\* the arguments of a call fail the validation against the tool's schema
InvalidArgs(tc) ==
  tc.name \in ProvidedTools /\ ~SchemaAccepts(InputSchema(tc.name), tc.args)

\* C6: a call whose arguments fail validation is never handed to callTool
\* and ends as an error.
C6_InvalidNeverForwarded ==
  \A s \in Sessions : \A i \in CallsOf(s) :
    InvalidArgs(toolCalls[s][i]) =>
      /\ <<s, i>> \notin callToolLog
      /\ pc[s] = "returned" => toolCalls[s][i].status = "error"

\* C7: for a tool name no server provides, no approval is requested and
\* callTool is not invoked; the call ends as an error.
C7_UnknownToolNoApproval ==
  /\ \A r \in DOMAIN approvals : approvals[r].toolName \in ProvidedTools
  /\ \A s \in Sessions : \A i \in CallsOf(s) :
       toolCalls[s][i].name \notin ProvidedTools =>
         /\ <<s, i>> \notin callToolLog
         /\ pc[s] = "returned" => toolCalls[s][i].status = "error"

\* C8: a status never goes back to pending, a returned result holds
\* terminal statuses only, and a terminal status never changes.
C8_StatusForwardOnly ==
  /\ [](\A s \in Sessions : pc[s] = "returned" =>
          \A i \in CallsOf(s) : toolCalls[s][i].status \in Terminal)
  /\ [][\A s \in Sessions : \A i \in CallsOf(s) :
          toolCalls[s][i].status \in Terminal =>
            toolCalls'[s][i].status = toolCalls[s][i].status]_vars

\* C9: when callTool throws, the call ends as an error with the tool's
\* exception message and the exception goes no further: the chat request
\* does not fail while it handles that call.
C9_ToolErrorContained ==
  \A s \in Sessions :
    ~(/\ pc[s] = "failedInCatch"
      /\ toolCalls[s][Len(toolCalls[s])].result = "toolError")

\* C10: of the tool calls of one model turn, at most one is in flight at
\* the tool server, and none is in flight before every earlier one has its
\* terminal status.
C10_OneCallInFlight ==
  \A k \in DOMAIN lwtCalls :
    lwtCalls[k].at = "callTool" =>
      \A j \in DOMAIN lwtCalls : j < k => lwtCalls[j].at = "done"

\* C11: every tool call gets a follow-up request of its own before the
\* next call is handled: once call k has its outcome and the loop has
\* moved on, a conversation holding the outcomes of exactly the calls
\* 1..k has been sent to the model.
C11_FollowUpPerCall ==
  \A k \in DOMAIN plrCalls :
    (/\ plrCalls[k].status \in Terminal
     /\ plrPc \in {"approval", "tool", "returned"}) => (1..k) \in plrFollowUps

\* C12: no outcome is left without a follow-up: when processing has
\* returned, the outcome of every call, a rejection too, is in a
\* conversation that was sent to the model.
C12_EveryOutcomeFollowedUp ==
  plrPc = "returned" =>
    \A k \in DOMAIN plrCalls : \E f \in plrFollowUps : k \in f

IsPrefix(a, b) == Len(a) <= Len(b) /\ SubSeq(b, 1, Len(a)) = a

OutcomeKinds == {"result", "error", "notApproved"}

\* C13: between two resets the history only grows at its end (each step
\* leaves the history a prefix of the next one, or empties it), and the
\* outcomes of one request's calls stand in it in the order of the calls,
\* also with two chat requests in flight.
C13_HistoryAppendOnly ==
  /\ [][\/ conversationHistory' = <<>>
        \/ IsPrefix(conversationHistory, conversationHistory')]_vars
  /\ [](\A p, q \in DOMAIN conversationHistory :
          (/\ p < q
           /\ conversationHistory[p].kind \in OutcomeKinds
           /\ conversationHistory[q].kind \in OutcomeKinds
           /\ conversationHistory[p].s = conversationHistory[q].s)
          => conversationHistory[p].i <= conversationHistory[q].i)

\* two requests overlapped: the outcome of a call of the first request
\* stands between the query of the second and the outcome of its call
C13_Witness ==
  \E p, q, r \in DOMAIN conversationHistory :
    /\ p < q /\ q < r
    /\ conversationHistory[p].kind = "query" /\ conversationHistory[p].s = 2
    /\ conversationHistory[q].kind \in OutcomeKinds /\ conversationHistory[q].s = 1
    /\ conversationHistory[r].kind \in OutcomeKinds /\ conversationHistory[r].s = 2

\* C14: a series of retries has at most maxReconnectAttempts retries.
C14_RetriesBounded ==
  \A path \in Paths : retriesScheduled[path] <= maxReconnectAttempts

\* C15: when disconnectFromServer(id) has returned true, no id that
\* normalizes to the same value is connected and the aggregate tool list
\* holds no tool of that server.
C15_DisconnectClearsVariants ==
  (regReply.op = "disconnect" /\ regReply.ok) =>
    /\ \A y \in Ids :
         normalizeServerId(y) = normalizeServerId(regReply.id) => ~isConnected(y)
    /\ \A path \in ServersOf(regReply.id) : \A k \in DOMAIN tools, j \in DOMAIN ToolsOf(path) :
         tools[k] # ToolsOf(path)[j]

\* C16: the aggregate tool list holds the tools of every server that is
\* marked connected.
C16_ToolsOfEveryConnected ==
  \A path \in Paths :
    Connected(connectedServers, ConnectNormalizedId(extractServerId(path))) =>
      \A j \in DOMAIN ToolsOf(path) : \E k \in DOMAIN tools : tools[k] = ToolsOf(path)[j]

\* C17: no tool stands twice in the aggregate tool list.
C17_NoDuplicateTools ==
  \A j, k \in DOMAIN tools : j # k => tools[j] # tools[k]

\* C18: two ids with the same normalized value are connected or not
\* together, and have the same tools.
C18_SameNormalizedSameConnection ==
  \A x, y \in Ids :
    normalizeServerId(x) = normalizeServerId(y) =>
      /\ isConnected(x) = isConnected(y)
      /\ getToolsForServer(x) = getToolsForServer(y)

\* C19: normalizing is idempotent, and the spellings "mcp-server-foo" and
\* "Server-FOO" are both normalized to "foo".
C19_NormalizeIdempotent ==
  /\ Len(normResults) = 2 => normResults[2] = normResults[1]
  /\ (/\ Len(normResults) >= 1
      /\ normCall.arg \in {<<"mcp-", "server-", "foo">>, <<"Server-", "FOO">>})
     => normResults[1] = <<"foo">>

\* C20: disconnecting an id that is not connected returns success and
\* changes nothing, in MCPClient and in MCPConnectionManager.
C20_DisconnectAbsentIsNoop ==
  /\ [][(regReply'.op = "disconnect" /\ ~regReply'.found) =>
          /\ regReply'.ok
          /\ UNCHANGED <<connectedServers, serverTools, tools>>]_vars
  /\ [][(mgrReply'.op = "disconnect" /\ ~mgrReply'.found) =>
          /\ mgrReply'.ok
          /\ UNCHANGED <<connections, transportMap>>]_vars

\* the requests that wait for a decision: created, not resolved, and the
\* entry of their id in the table
Waiting ==
  {r \in DOMAIN approvals :
     ~approvals[r].settled /\ <<approvals[r].id, r>> \in pendingApprovals}

\* C21: switching the approval mode leaves the pending requests alone:
\* the step that replaces the callback changes neither the table nor any
\* request nor any chat request; whatever the mode is, a waiting request
\* can be decided through /api/approve-tool and its timer can fire when it
\* is due; and a request is only ever resolved by a decision for its
\* table entry, with `approved === true` of that decision, or by its
\* timer, with false.
C21_ModeSwitchKeepsPending ==
  /\ [][approvalCallback' # approvalCallback =>
          UNCHANGED <<pendingApprovals, approvals, pc, toolCalls, callToolLog>>]_vars
  /\ [](\A r \in Waiting :
          /\ \A a \in ApprovedValues : ENABLED ApproveTool(approvals[r].id, a)
          /\ now >= approvals[r].createdAt + ApprovalTimeoutMs /\ ~approvals[r].timerFired
               => ENABLED TimerFires(r))
  /\ [][\A r \in DOMAIN approvals :
          (~approvals[r].settled /\ approvals'[r].settled) =>
            \/ /\ approvals'[r].by = "timeout"
               /\ ~approvals'[r].value
               /\ approvals'[r].timerFired
            \/ /\ approvals'[r].by \in ApprovedValues
               /\ approvals'[r].value = StrictTrue(approvals'[r].by)
               /\ <<approvals[r].id, r>> \in pendingApprovals
               /\ ~MapHas(pendingApprovals', approvals[r].id)]_vars

\* the mode is auto-approve, and the step just taken was a decision that
\* resolved a request, which was created under the external mode
C21_Witness ==
  /\ approvalCallback = "auto"
  /\ approveReply.status = 200
  /\ ~approveReply.priorResolved
  /\ \E r \in DOMAIN approvals : approvals[r].by = "true" /\ approvals[r].value

\* the property names in a `required` list
RequiredOf(schema) == {schema.required.list[i] : i \in DOMAIN schema.required.list}

\* the declared properties of an object schema that input gets wrong: a
\* required one that is absent, or a present one that fails its validator
Violations(schema, input) ==
  {k \in DOMAIN schema.properties :
     \/ k \notin DOMAIN input.fields /\ k \in RequiredOf(schema)
     \/ /\ k \in DOMAIN input.fields
        /\ ~ZodParse(createZodSchema(schema.properties[k]), input.fields[k]).ok}

\* validation has been done: the input was rejected or handed on
Validated == vctOutcome.kind \in {"invalid", "callTool", "toolError"}

\* C22: an input is rejected by a compiled object schema exactly when a
\* required property is absent or a present property fails its validator,
\* and the violations name those properties; a property that is not
\* required may be absent.
C22_RequiredOptional ==
  (Validated /\ vctCall.schema \in ObjectSchemas) =>
    LET bad == Violations(vctCall.schema, vctCall.input)
    IN /\ vctOutcome.kind = "invalid" <=> bad # {}
       /\ vctOutcome.kind = "invalid" => vctOutcome.issues = {<<k>> : k \in bad}

\* C23: compiling a schema never throws, and a node of a shape the
\* compiler has no case for accepts every value.
C23_CompileNeverThrows ==
  /\ vctOutcome.kind # "compileError"
  /\ (Validated /\ vctCall.schema \in {Typed("widget"), EmptyNode, JsonNode("5")})
       => vctOutcome.kind # "invalid"

\* C24: the arguments handed to the tool server are the caller's input,
\* with the properties the schema does not declare.
C24_ExtraPropertiesPassThrough ==
  vctOutcome.kind \in {"callTool", "toolError"} => vctOutcome.arguments = vctCall.input

\* a JSON fragment with its braces
Braced(fragment) == <<"{">> \o fragment \o <<"}">>

\* the calls the parser got from the canonical pattern
StandardCalls ==
  Keep(parserOut.toolCalls,
       {i \in DOMAIN parserOut.toolCalls : parserOut.toolCalls[i].pattern = "standard"})

\* C25: a canonical call block with a fragment that JSON.parse refuses
\* gives exactly one call: each fragment that the repair sequence mends is
\* returned mended, and for a fragment it cannot mend the call holds the
\* empty object and has the status error.
C25_UnparseableNeverDropped ==
  \A a \in ArgFragments, r \in ResultFragments :
    LET args == safeJsonParse(Braced(a), JsonError)
        result == safeJsonParse(Braced(r), JsonError)
    IN (/\ parserCall.fn # "none"
        /\ parserCall.content = Block(a, r)
        /\ JsonError \in {JsonParse(Braced(a)), JsonParse(Braced(r))})
       => /\ Len(StandardCalls) = 1
          /\ args # JsonError => StandardCalls[1].args = args
          /\ result # JsonError => StandardCalls[1].result = result
          /\ args = JsonError =>
               StandardCalls[1].args = <<>> /\ StandardCalls[1].status = "error"
          /\ result = JsonError =>
               StandardCalls[1].result = <<>> /\ StandardCalls[1].status = "error"

\* C26: the calls extractToolCalls returns come from disjoint parts of
\* the content.
C26_SpansDisjoint ==
  parserCall.fn = "McpService" =>
    \A i, j \in DOMAIN parserOut.toolCalls :
      i < j => \/ parserOut.toolCalls[i].to < parserOut.toolCalls[j].from
               \/ parserOut.toolCalls[j].to < parserOut.toolCalls[i].from

\* no pattern that makes a tool call matches the content
Plain(content) ==
  \A pattern \in {"standard", "strict", "bracket", "narrative", "fence"} :
    Matches(pattern, content, 1) = <<>>

\* C27: a content that no pattern matches is returned as it is, with no
\* tool call.
C27_PlainTextUnchanged ==
  (parserCall.fn # "none" /\ Plain(parserCall.content)) =>
    /\ parserOut.content = parserCall.content
    /\ parserOut.toolCalls = <<>>

\* C28: without required approval processLLMResponse never waits for an
\* approval and no call ends as not approved; the calls are handed to
\* validateAndCallTool one after the other in the order of the response;
\* and what it returns is the model's answer to the conversation that
\* holds the outcome of every call.
C28_NoApprovalRunsAll ==
  (plrCalls # <<>> /\ ~plrCalls[1].requireApproval) =>
    /\ plrPc # "approval"
    /\ \A k \in DOMAIN plrCalls :
         /\ plrCalls[k].status # "not_approved"
         /\ plrCalls[k].status # "waiting" =>
              \A j \in 1..(k - 1) : plrCalls[j].status \in {"success", "error"}
    /\ plrPc = "returned" =>
         /\ \A k \in DOMAIN plrCalls : plrCalls[k].status \in {"success", "error"}
         /\ plrResponse = "newResponse"
         /\ plrFollowUps = {DOMAIN plrCalls}

\* two calls were run without approval, one of them failed, and the
\* follow-up response was returned
C28_Witness ==
  /\ Len(plrCalls) = 2
  /\ ~plrCalls[1].requireApproval
  /\ plrCalls[1].status = "error" /\ plrCalls[2].status = "success"
  /\ plrPc = "returned"
  /\ plrResponse = "newResponse"

\* C29: performComplexTask asks the model at most maxIterations times
\* inside its loop and at most once more for the final summary, and the
\* `completed` it returns is true exactly when the loop ended because a
\* response carried no tool call, the last allowed iteration included.
C29_CompletedIffToolFree ==
  /\ pctSent.rounds <= maxIterations
  /\ pctSent.summaries <= 1
  /\ pctPc = "returned" => (completed <=> pctBroke)

\* C30: once a caller has disconnected a server whose retry is scheduled,
\* the retries of that series do nothing: the timer's call of
\* connectToServer starts no connection attempt, and until
\* connectToServer is called anew for the server it is not marked
\* connected and its tools do not enter the aggregate tool list.
C30_AbandonedRetriesNoOps ==
  /\ [](\A path \in abandoned :
          /\ ~Connected(connectedServers, ConnectNormalizedId(extractServerId(path)))
          /\ ~Connected(connectedServers, extractServerId(path))
          /\ \A c \in connecting : c.path # path
          /\ \A k \in DOMAIN tools : tools[k] # ToolsOf(path)[1])
  /\ [][\A path \in abandoned :
          ([path |-> path] \in retryTimers /\ [path |-> path] \notin retryTimers')
            => UNCHANGED <<connecting, reconnectAttempts, connectedServers, tools>>]_vars

\* C31: a caller of connectToServer sees it reject only when the series of
\* retries is exhausted (no retry is scheduled any more and the attempt
\* counter stands at its bound), and a server whose caller has seen the
\* rejection does not become connected unless connectToServer is called
\* anew for it.
C31_FailureOnlyWhenExhausted ==
  /\ [][\A path \in told' \ told :
          /\ [path |-> path] \notin retryTimers'
          /\ retriesScheduled[path] = maxReconnectAttempts]_vars
  /\ [](\A path \in told :
          /\ ~Connected(connectedServers, ConnectNormalizedId(extractServerId(path)))
          /\ ~Connected(connectedServers, extractServerId(path)))

\* C32: the n-th retry of a series (n = 1, 2, 3) is scheduled with a delay
\* of 1000 * 2^(n-1) ms: 1000, 2000, 4000.
C32_BackoffDoubles ==
  \A path \in Paths :
    retriesScheduled[path] \in 1..maxReconnectAttempts =>
      lastDelay[path] = 1000 * Pow2(retriesScheduled[path] - 1)

\* C33: when POST /api/servers/connect with a server path answers with an
\* error (400: no supported kind of path; 500: connectToServer failed),
\* the registry file holds the server's id only if it held it when the
\* request arrived.
C33_FailedConnectKeepsRegistry ==
  srvReply.status \in {400, 500} =>
    (srvReply.id \in configFile => srvReply.wasSaved)

\* C34: the requests that are unresolved at the same time have distinct
\* ids, and each of them has its own entry in the pending table as long
\* as no decision was posted for its id, so that a decision can reach it.
C34_PendingIdsDistinct ==
  LET open == {r \in DOMAIN approvals : ~approvals[r].settled}
  IN /\ \A r, q \in open : r # q => approvals[r].id # approvals[q].id
     /\ \A r \in open : <<approvals[r].id, r>> \in pendingApprovals

\* C35: at no time are two calls of connectToServer for the same server
\* both suspended with a transport of their own: a call that starts while
\* another is waiting for the connection or the tool listing starts no
\* second connection.
C35_OneTransportPerServer ==
  \A c, d \in explicit :
    ConnectNormalizedId(extractServerId(c.path)) = ConnectNormalizedId(extractServerId(d.path))
      => c = d

\* C36: in the messages of the conversation manager every message with
\* role 'tool' comes right after the assistant message that carries the
\* tool call with the same id.
C36_ToolMessageFollowsItsCall ==
  \A p \in DOMAIN plrMessages :
    plrMessages[p].role = "tool" =>
      /\ p > 1
      /\ plrMessages[p - 1].role = "assistant"
      /\ plrMessages[p - 1].kind = "toolCall"
      /\ plrMessages[p - 1].i = plrMessages[p].i

\* C37: a call whose result came back from the tool server with isError
\* true does not stand with status success in the tool results of the
\* conversation manager.
C37_IsErrorNotSuccess ==
  \A k \in DOMAIN plrCalls : plrCalls[k].isError => plrCalls[k].status # "success"

\* C38: when disconnectAll has completed and no close() has thrown, no
\* client the manager connected is still open, and isConnected is false
\* for every id.
C38_DisconnectAllClosesAll ==
  (mgrReply.op = "disconnectAll" /\ mgrReply.ok) =>
    /\ mgrClients.open = {}
    /\ connections = {}

====
